---- MODULE Spec2Model ----
(***************************************************************************)
(* lazy_ta: the resumable grading pipeline and its progress store.         *)
(*                                                                         *)
(* Three specifications share the variables below.                         *)
(*   Spec          one run of the grade command: scan, filter by progress, *)
(*                 then grade_submission on every submission, by a pool of *)
(*                 workers.                                                *)
(*   SpecStoreOps  the progress store and the progress filter driven       *)
(*                 through their functions, one call after another.        *)
(*   SpecStore     threads inside read_progress_log, write_progress_entry  *)
(*                 and update_progress_entry, one file access per step.    *)
(***************************************************************************)
EXTENDS Integers, Sequences, FiniteSets, TLC

VARIABLES
    file,         \* results/grading_progress.jsonl: the sequence of its lines
    lock,         \* progress._file_lock: the thread holding it, or NoThread
    submissions,  \* all_submissions, as scan_source_codes returned them
    toGrade,      \* the list filter_submissions_by_progress returned
    phase,        \* position of the grade command
    workers,      \* the --workers option
    sub,          \* the Submission objects being graded, by index into toGrade
    preFile,      \* history: the file as it was before the last store call
    lastOp,       \* history: the last store call and its arguments
    th,           \* the threads of SpecStore: operation, position, locals
    batch,        \* a batch entry point at work: its list, position and counters
    inp,          \* the arguments of a function applied on its own
    out           \* what that function returned

vars == <<file, lock, submissions, toGrade, phase, workers, sub, preFile, lastOp, th,
          batch, inp, out>>

-----------------------------------------------------------------------------
(* Bounds of the model                                                     *)

\* at most this many source files are on disk in one run
MaxSubs == 2
\* at most this many source files are on disk when the filter is called alone
MaxDiscovered == 3
\* the largest --workers value tried
MaxWorkers == 2
\* threads of SpecStore
NumThreads == 2

-----------------------------------------------------------------------------
(* Strings                                                                 *)

\* Python's `t in s` for strings
Contains(s, t) ==
    \E i \in 1..(Len(s) - Len(t) + 1) : SubSeq(s, i, i + Len(t) - 1) = t

-----------------------------------------------------------------------------
(* models.py: Submission                                                   *)

\* Submission(student_id=..., problem_num=..., file_path=..., file_name=...)
\* with every other field at its default
NewSubmission(student_id, problem_num, file_name) ==
    [student_id      |-> student_id,
     problem_num     |-> problem_num,
     file_name       |-> file_name,
     executable_path |-> "none",
     compile_status  |-> "",
     compile_error   |-> "",
     test_results    |-> <<>>,
     passed_tests    |-> 0,
     total_tests     |-> 0,
     final_score     |-> 0,
     score_reason    |-> "",
     llm_response    |-> FALSE,
     graded_at       |-> FALSE]

\* Submission.is_extra
IsExtra(s) == Contains(s.problem_num, "_ex")

\* file_scanner.get_problem_key
GetProblemKey(s) == "P" \o s.problem_num

-----------------------------------------------------------------------------
(* models.py: ProblemResult, GradingProgress.  A Python dict keeps its     *)
(* insertion order: the problems mapping is a sequence of entries with     *)
(* distinct keys, and an assignment to a present key keeps its place.      *)

\* score = -1: not graded yet
Ungraded == -1

ProblemResult(score, reason) == [score |-> score, reason |-> reason]

DictHas(d, k) == \E i \in DOMAIN d : d[i].key = k

DictGet(d, k) == d[CHOOSE i \in DOMAIN d : d[i].key = k].result

\* d[k] = v
DictSet(d, k, v) ==
    IF DictHas(d, k)
    THEN [i \in DOMAIN d |-> IF d[i].key = k THEN [key |-> k, result |-> v] ELSE d[i]]
    ELSE Append(d, [key |-> k, result |-> v])

\* GradingProgress(student_id=...)
NewGradingProgress(student_id) ==
    [student_id |-> student_id, problems |-> <<>>, completed |-> FALSE]

\* GradingProgress.is_problem_graded
IsProblemGraded(p, key) ==
    IF ~DictHas(p.problems, key) THEN FALSE
    ELSE DictGet(p.problems, key).score # Ungraded

\* a mutated get_ungraded_problems: the comparison is inverted
GetGradedProblems(p) ==
    LET graded == SelectSeq(p.problems, LAMBDA e : e.result.score # Ungraded)
    IN  [i \in DOMAIN graded |-> graded[i].key]

\* GradingProgress.get_ungraded_problems
GetUngradedProblems(p) ==
    LET ungraded == SelectSeq(p.problems, LAMBDA e : e.result.score = Ungraded)
    IN  [i \in DOMAIN ungraded |-> ungraded[i].key]

\* a mutated update: the new score is added to the stored one
UpdateProblemScoreAdds(p, key, score, reason) ==
    LET was == IF DictHas(p.problems, key) THEN DictGet(p.problems, key).score ELSE 0
        problems == DictSet(p.problems, key, ProblemResult(was + score, reason))
    IN  [p EXCEPT !.problems = problems]

\* a mutated update: every key of the record gets the new result
UpdateProblemScoreEveryKey(p, key, score, reason) ==
    LET problems == [i \in DOMAIN DictSet(p.problems, key, ProblemResult(score, reason)) |->
                        [key |-> DictSet(p.problems, key, ProblemResult(score, reason))[i].key,
                         result |-> ProblemResult(score, reason)]]
    IN  [p EXCEPT !.problems = problems]

\* GradingProgress.update_problem_score
UpdateProblemScore(p, key, score, reason) ==
    LET problems == DictSet(p.problems, key, ProblemResult(score, reason))
    IN  [p EXCEPT !.problems = problems,
                  !.completed = IF \A i \in DOMAIN problems : problems[i].result.score # Ungraded
                                THEN TRUE
                                ELSE p.completed]

-----------------------------------------------------------------------------
(* progress.py: the JSONL file.  A line is the JSON object                 *)
(* {"id", "problems", "completed"} that model_dump_json(by_alias=True)     *)
(* writes, or text that json.loads / model_validate rejects, or bytes that *)
(* are not UTF-8.                                                          *)

MalformedLine ==
    [wellformed |-> FALSE, decodable |-> TRUE, id |-> "", problems |-> <<>>,
     completed |-> FALSE]

\* a line holding bytes the utf-8 decoder of open(log_path, 'r') rejects
UndecodableLine == [MalformedLine EXCEPT !.decodable = FALSE]

\* prog.model_dump_json(by_alias=True)
ModelDumpJson(p) ==
    [wellformed |-> TRUE, decodable |-> TRUE, id |-> p.student_id,
     problems |-> p.problems, completed |-> p.completed]

\* `for line in f` yields the line
Decodes(line) == line.decodable

\* the loop over the file reaches its end without UnicodeDecodeError
Readable(f) == \A i \in DOMAIN f : Decodes(f[i])

\* json.loads(line) and GradingProgress.model_validate(data) accept the line
Parses(line) == line.wellformed

\* GradingProgress.model_validate(json.loads(line))
ModelValidate(line) ==
    [student_id |-> line.id, problems |-> line.problems, completed |-> line.completed]

\* progress_dict: student_id -> GradingProgress, in insertion order
PDHas(d, sid) == \E i \in DOMAIN d : d[i].student_id = sid

PDGet(d, sid) == d[CHOOSE i \in DOMAIN d : d[i].student_id = sid]

\* progress_dict[progress.student_id] = progress
PDSet(d, p) ==
    IF PDHas(d, p.student_id)
    THEN [i \in DOMAIN d |-> IF d[i].student_id = p.student_id THEN p ELSE d[i]]
    ELSE Append(d, p)

RECURSIVE ParseLines(_, _)
\* the loop over the lines of the file: a line that does not parse is skipped,
\* a later line of a student replaces the earlier one; at a line that does not
\* decode the for statement raises and the loop ends with what it has (the
\* lines of the chunks read before it, here every line before it)
ParseLines(lines, progress_dict) ==
    IF lines = <<>> THEN progress_dict
    ELSE LET line == Head(lines)
         IN  IF ~Decodes(line) THEN progress_dict
             ELSE ParseLines(Tail(lines),
                             IF Parses(line) THEN PDSet(progress_dict, ModelValidate(line))
                             ELSE progress_dict)

\* read_progress_log
ReadProgressLog(f) == ParseLines(f, <<>>)

\* write_progress_entry: the file opened with 'a'
WriteProgressEntry(f, progress) == Append(f, ModelDumpJson(progress))

\* a mutated rewrite: only the first record is written back
RewriteFirstOnly(progress_dict) ==
    IF progress_dict = <<>> THEN <<>> ELSE <<ModelDumpJson(progress_dict[1])>>

\* the file opened with 'w' and one line written per record of progress_dict
RewriteAll(progress_dict) ==
    [i \in DOMAIN progress_dict |-> ModelDumpJson(progress_dict[i])]

\* update_progress_entry, the whole call under _file_lock
UpdateProgressEntry(f, student_id, problem_key, score, reason) ==
    LET progress_dict == ParseLines(f, <<>>)
    IN  IF ~Readable(f) THEN f
        ELSE IF PDHas(progress_dict, student_id)
        THEN RewriteAll(PDSet(progress_dict,
                              UpdateProblemScore(PDGet(progress_dict, student_id),
                                                 problem_key, score, reason)))
        ELSE f

RECURSIVE SeedProblems(_, _)
\* for key in problem_keys: progress.problems[key] = ProblemResult(score=-1, reason='')
SeedProblems(progress, problem_keys) ==
    IF problem_keys = <<>> THEN progress
    ELSE SeedProblems([progress EXCEPT !.problems =
                           DictSet(@, Head(problem_keys), ProblemResult(Ungraded, ""))],
                      Tail(problem_keys))

\* a mutated initialisation: only the first key is seeded
InitializeFirstKeyOnly(f, student_id, problem_keys) ==
    LET progress == SeedProblems(NewGradingProgress(student_id), SubSeq(problem_keys, 1, 1))
    IN  [progress |-> progress, file |-> WriteProgressEntry(f, progress)]

\* initialize_student_progress: the record it returns and the file it leaves
InitializeStudentProgress(f, student_id, problem_keys) ==
    LET progress == SeedProblems(NewGradingProgress(student_id), problem_keys)
    IN  [progress |-> progress, file |-> WriteProgressEntry(f, progress)]

\* a mutated get_student_status: no student has a record
StatusNeverFound(progress_dict, student_id) == [is_completed |-> FALSE, found |-> FALSE]

\* get_student_status
GetStudentStatus(progress_dict, student_id) ==
    IF ~PDHas(progress_dict, student_id)
    THEN [is_completed |-> FALSE, found |-> FALSE]
    ELSE [is_completed |-> PDGet(progress_dict, student_id).completed, found |-> TRUE]

-----------------------------------------------------------------------------
(* file_scanner.py: filter_submissions_by_progress                         *)

InSeq(x, s) == \E i \in DOMAIN s : s[i] = x

RECURSIVE GroupStudents(_, _)
\* the keys of student_submissions (a defaultdict), in the order of their
\* first submission
GroupStudents(subs, seen) ==
    IF subs = <<>> THEN seen
    ELSE GroupStudents(Tail(subs),
                       IF InSeq(Head(subs).student_id, seen) THEN seen
                       ELSE Append(seen, Head(subs).student_id))

\* student_submissions[student_id]
SubmissionsOf(subs, student_id) ==
    SelectSeq(subs, LAMBDA s : s.student_id = student_id)

\* [get_problem_key(sub) for sub in subs]
ProblemKeys(subs) == [i \in DOMAIN subs |-> GetProblemKey(subs[i])]

RECURSIVE Categorize(_, _, _)
\* the loop that sorts the students into completed, partial and new, and
\* initialises the new ones
Categorize(students, subs, acc) ==
    IF students = <<>> THEN acc
    ELSE LET student_id == Head(students)
             status == GetStudentStatus(acc.progress_dict, student_id)
             init == InitializeStudentProgress(
                         acc.file, student_id,
                         ProblemKeys(SubmissionsOf(subs, student_id)))
         IN  Categorize(
                 Tail(students), subs,
                 IF status.is_completed
                 THEN [acc EXCEPT !.completed_students = Append(@, student_id)]
                 ELSE IF status.found
                 THEN [acc EXCEPT !.partial_students = Append(@, student_id)]
                 ELSE [acc EXCEPT !.new_students = Append(@, student_id),
                                  !.file = init.file,
                                  !.progress_dict = PDSet(@, init.progress)])

RECURSIVE FilterPartialAll(_, _, _)
\* a mutated Priority 1: every submission of the partial students
FilterPartialAll(partial_students, subs, progress_dict) ==
    IF partial_students = <<>> THEN <<>>
    ELSE SubmissionsOf(subs, Head(partial_students))
         \o FilterPartialAll(Tail(partial_students), subs, progress_dict)

RECURSIVE FilterPartial(_, _, _)
\* Priority 1: of the partial students, the submissions whose key is ungraded
FilterPartial(partial_students, subs, progress_dict) ==
    IF partial_students = <<>> THEN <<>>
    ELSE LET student_id == Head(partial_students)
             ungraded_keys == GetUngradedProblems(PDGet(progress_dict, student_id))
         IN  SelectSeq(SubmissionsOf(subs, student_id),
                       LAMBDA s : InSeq(GetProblemKey(s), ungraded_keys))
             \o FilterPartial(Tail(partial_students), subs, progress_dict)

RECURSIVE FilterNew(_, _)
\* Priority 2: every submission of the new students
FilterNew(new_students, subs) ==
    IF new_students = <<>> THEN <<>>
    ELSE SubmissionsOf(subs, Head(new_students)) \o FilterNew(Tail(new_students), subs)

\* filter_submissions_by_progress: the list and map it returns, the file it leaves
FilterSubmissionsByProgress(subs, f) ==
    LET cat == Categorize(GroupStudents(subs, <<>>), subs,
                          [completed_students |-> <<>>,
                           partial_students   |-> <<>>,
                           new_students       |-> <<>>,
                           progress_dict      |-> ReadProgressLog(f),
                           file               |-> f])
    IN  [filtered      |-> FilterPartial(cat.partial_students, subs, cat.progress_dict)
                           \o FilterNew(cat.new_students, subs),
         progress_dict |-> cat.progress_dict,
         file          |-> cat.file]

-----------------------------------------------------------------------------
(* The environment of a run: the source files on disk, the fixtures        *)

\* source_codes/<student>/<file>, in the order scan_source_codes lists them
AllFiles ==
    << NewSubmission("s1", "1_ex", "s1_P1_ex.c"),
       NewSubmission("s2", "1", "s2_P1.c"),
       NewSubmission("s2", "1", "s2_P1.cpp"),
       NewSubmission("s2", "2", "s2_P2.c") >>

Students == {AllFiles[i].student_id : i \in DOMAIN AllFiles}

\* the problem keys of the files of one student
StudentKeys(student_id) ==
    {GetProblemKey(AllFiles[i]) : i \in {j \in DOMAIN AllFiles : AllFiles[j].student_id = student_id}}

\* what scan_source_codes can return: the files present, in disk order
Discoveries(n) ==
    {SelectSeq(AllFiles, LAMBDA s : s \in D) :
        D \in {D \in SUBSET {AllFiles[i] : i \in DOMAIN AllFiles} :
                   Cardinality(D) \in 1..n}}

-----------------------------------------------------------------------------
(* SpecStoreOps: the store and the filter, one call after another          *)

NoThread == 0

NoOp == [name |-> "none", student_id |-> "", problem_key |-> "", score |-> 0, reason |-> ""]

\* the (score, reason) pairs given to update_progress_entry
ScoreReasons ==
    { ProblemResult(Ungraded, ""), ProblemResult(0, "compile failed"),
      ProblemResult(5, "all passed") }

InitOps ==
    /\ file = <<>>
    /\ lock = NoThread
    /\ submissions = <<>>
    /\ toGrade = <<>>
    /\ phase = "ops"
    /\ workers = 1
    /\ sub = <<>>
    /\ preFile = <<>>
    /\ lastOp = NoOp
    /\ th = <<>>
    /\ batch = <<>>
    /\ inp = <<>>
    /\ out = <<>>

\* update_progress_entry(student_id, problem_key, score, reason)
OpUpdate ==
    \E student_id \in Students, r \in ScoreReasons :
      \E problem_key \in StudentKeys(student_id) :
        /\ file' = UpdateProgressEntry(file, student_id, problem_key, r.score, r.reason)
        /\ preFile' = file
        /\ lastOp' = [name |-> "update", student_id |-> student_id,
                      problem_key |-> problem_key, score |-> r.score, reason |-> r.reason]
        /\ submissions' = <<>>
        /\ toGrade' = <<>>
        /\ UNCHANGED <<batch, inp, out, lock, phase, workers, sub, th>>

\* filter_submissions_by_progress(all_submissions)
OpFilter ==
    \E d \in Discoveries(MaxDiscovered) :
        LET r == FilterSubmissionsByProgress(d, file)
        IN  /\ file' = r.file
            /\ preFile' = file
            /\ lastOp' = [NoOp EXCEPT !.name = "filter"]
            /\ submissions' = d
            /\ toGrade' = r.filtered
            /\ UNCHANGED <<batch, inp, out, lock, phase, workers, sub, th>>

NextOps == OpUpdate \/ OpFilter

SpecStoreOps == InitOps /\ [][NextOps]_vars

-----------------------------------------------------------------------------
(* Claims about the store and the filter, under SpecStoreOps               *)

\* the records read_progress_log returns from the file
Stored == ReadProgressLog(file)

\* what read_progress_log returned before the last call
StoredBefore == ReadProgressLog(preFile)

AllGraded(p) == \A i \in DOMAIN p.problems : p.problems[i].result.score # Ungraded

\* C3: after any sequence of mutations, completed is true if and only if every
\* ProblemResult of the record has a score other than -1.
C3_CompletedIffAllGraded ==
    \A i \in DOMAIN Stored : Stored[i].completed <=> AllGraded(Stored[i])

\* C6: update_progress_entry is idempotent: applying the update just made a
\* second time leaves every student's stored GradingProgress as it is.
C6_UpdateIdempotent ==
    lastOp.name = "update" =>
        ReadProgressLog(UpdateProgressEntry(file, lastOp.student_id, lastOp.problem_key,
                                            lastOp.score, lastOp.reason))
        = Stored

\* an update found its student and changed the stored score of a graded key
C6_Witness ==
    /\ lastOp.name = "update"
    /\ PDHas(StoredBefore, lastOp.student_id)
    /\ IsProblemGraded(PDGet(StoredBefore, lastOp.student_id), lastOp.problem_key)
    /\ Stored # StoredBefore

IsNewStudent(s) == ~PDHas(StoredBefore, s.student_id)

IsCompletedStudent(s) ==
    PDHas(StoredBefore, s.student_id) /\ PDGet(StoredBefore, s.student_id).completed

IsPartialStudent(s) ==
    PDHas(StoredBefore, s.student_id) /\ ~PDGet(StoredBefore, s.student_id).completed

\* the problem keys discovered for the student of s
DiscoveredKeys(s) ==
    {GetProblemKey(submissions[j]) :
        j \in {k \in DOMAIN submissions : submissions[k].student_id = s.student_id}}

\* C7: the filter returns no submission of a student stored as completed, and
\* for every discovered student absent from the store the file it leaves has a
\* newly appended record of that student holding every discovered problem key
\* of the student at score -1.
C7_FilterSkipsCompletedSeedsNew ==
    lastOp.name = "filter" =>
        /\ \A i \in DOMAIN toGrade : ~IsCompletedStudent(toGrade[i])
        /\ SubSeq(file, 1, Len(preFile)) = preFile
        /\ \A i \in DOMAIN submissions :
               IsNewStudent(submissions[i]) =>
                   \E k \in (Len(preFile) + 1)..Len(file) :
                       /\ file[k].wellformed
                       /\ file[k].id = submissions[i].student_id
                       /\ ~file[k].completed
                       /\ {file[k].problems[n].key : n \in DOMAIN file[k].problems}
                              = DiscoveredKeys(submissions[i])
                       /\ \A n \in DOMAIN file[k].problems :
                              file[k].problems[n].result = ProblemResult(Ungraded, "")
                       /\ PDGet(Stored, submissions[i].student_id) = ModelValidate(file[k])

\* the filter met a completed student and a new student with two problem keys
C7_Witness ==
    /\ lastOp.name = "filter"
    /\ \E i \in DOMAIN submissions : IsCompletedStudent(submissions[i])
    /\ \E i \in DOMAIN submissions :
           IsNewStudent(submissions[i]) /\ Cardinality(DiscoveredKeys(submissions[i])) = 2

\* a partial student's submission whose key is still at -1 in the store
StillUngraded(s) ==
    /\ IsPartialStudent(s)
    /\ DictHas(PDGet(StoredBefore, s.student_id).problems, GetProblemKey(s))
    /\ DictGet(PDGet(StoredBefore, s.student_id).problems, GetProblemKey(s)).score = Ungraded

\* C8: the list the filter returns holds exactly the still ungraded submissions
\* of the partial students and every submission of the new students, the
\* former before the latter; it holds no submission of a completed student and
\* none whose problem key has a score other than -1.
C8_FilterResult ==
    lastOp.name = "filter" =>
        LET expected == {submissions[i] : i \in {k \in DOMAIN submissions :
                             StillUngraded(submissions[k]) \/ IsNewStudent(submissions[k])}}
        IN  /\ {toGrade[i] : i \in DOMAIN toGrade} = expected
            /\ Len(toGrade) = Cardinality(expected)
            /\ \A i, j \in DOMAIN toGrade :
                   IsPartialStudent(toGrade[i]) /\ IsNewStudent(toGrade[j]) => i < j
            /\ \A i \in DOMAIN toGrade :
                   /\ ~IsCompletedStudent(toGrade[i])
                   /\ ~(PDHas(StoredBefore, toGrade[i].student_id)
                        /\ IsProblemGraded(PDGet(StoredBefore, toGrade[i].student_id),
                                           GetProblemKey(toGrade[i])))

\* the filter returned a partial student's ungraded submission ahead of a new
\* student's that comes first on disk, and left a graded submission out
C8_Witness ==
    /\ lastOp.name = "filter"
    /\ \E i, j \in DOMAIN submissions :
           /\ i < j
           /\ IsNewStudent(submissions[i])
           /\ StillUngraded(submissions[j])
           /\ toGrade = <<submissions[j], submissions[i]>>
    /\ \E i \in DOMAIN submissions :
           /\ IsPartialStudent(submissions[i])
           /\ IsProblemGraded(PDGet(StoredBefore, submissions[i].student_id),
                              GetProblemKey(submissions[i]))

-----------------------------------------------------------------------------
(* test_runner.py: the fixture cache and run_all_tests                     *)

\* TestCaseManager._test_cases_cache: the fixture folders of each problem;
\* test_cases/ holds P1, P1_ex, P3_a, P3_b, P3_a_ex and P4, and no folder for P2
TestCases(problem_num) ==
    CASE problem_num = "1"      -> <<"t1", "t2">>
      [] problem_num = "1_ex"   -> <<"t1">>
      [] problem_num = "3_a"    -> <<"t1">>
      [] problem_num = "3_b"    -> <<"t1">>
      [] problem_num = "3_a_ex" -> <<"t1">>
      [] problem_num = "4"      -> <<"t1", "t2", "t3">>
      [] OTHER                  -> <<>>

\* what one run of the binary on a fixture can end in
TestOutcomes == {"pass", "fail", "timeout"}

\* run_test_case: the result dict of one fixture; the run ends in matching
\* output, other output, subprocess.TimeoutExpired or another exception
RunTestCase(test_folder, outcome) ==
    [test_folder |-> test_folder,
     passed      |-> outcome = "pass",
     error       |-> CASE outcome = "timeout" -> "timeout"
                       [] outcome = "error"   -> "execution error"
                       [] OTHER               -> ""]

\* the full score of an extra problem
ExtraMaxScore == 5

\* the rubric total of a regular problem; all fixtures passing adds one point
RegularRubric == 30

\* max_score = 5 if submission.is_extra else 30 + 1
MaxScore(s) == IF IsExtra(s) THEN ExtraMaxScore ELSE RegularRubric + 1

\* sum(1 for r in results if r['passed'])
CountPassed(results) == Cardinality({i \in DOMAIN results : results[i].passed})

\* a mutated run_all_tests: the loop over the fixtures ends at the first run
\* that raises
RunAllTestsStopAtError(s, exe_exists, outcomes) ==
    LET test_cases == TestCases(s.problem_num)
        raising == {i \in DOMAIN test_cases : outcomes[i] \in {"timeout", "error"}}
        last == IF raising = {} THEN Len(test_cases)
                ELSE CHOOSE i \in raising : \A k \in raising : i <= k
        results == [i \in 1..last |-> RunTestCase(test_cases[i], outcomes[i])]
        passed == CountPassed(results)
        counted == [s EXCEPT !.test_results = results,
                             !.total_tests = Len(results),
                             !.passed_tests = passed]
    IN  IF ~exe_exists
        THEN [s |-> [s EXCEPT !.test_results = <<>>, !.total_tests = 0, !.passed_tests = 0],
              all_passed |-> FALSE, ran |-> 0]
        ELSE IF test_cases = <<>>
        THEN [s |-> [s EXCEPT !.test_results = <<>>, !.total_tests = 0, !.passed_tests = 0,
                              !.final_score = 0, !.score_reason = "no test case"],
              all_passed |-> FALSE, ran |-> 0]
        ELSE IF passed = Len(results)
        THEN [s |-> [counted EXCEPT !.final_score = MaxScore(s),
                                    !.score_reason = "all passed"],
              all_passed |-> TRUE, ran |-> Len(results)]
        ELSE [s |-> counted, all_passed |-> FALSE, ran |-> Len(results)]

\* run_all_tests: the submission it leaves, the value it returns, and the
\* number of fixtures it ran
RunAllTests(s, exe_exists, outcomes) ==
    LET test_cases == TestCases(s.problem_num)
        results == [i \in DOMAIN test_cases |-> RunTestCase(test_cases[i], outcomes[i])]
        passed == CountPassed(results)
        counted == [s EXCEPT !.test_results = results,
                             !.total_tests = Len(results),
                             !.passed_tests = passed]
    IN  IF ~exe_exists
        THEN [s |-> [s EXCEPT !.test_results = <<>>, !.total_tests = 0, !.passed_tests = 0],
              all_passed |-> FALSE, ran |-> 0]
        ELSE IF test_cases = <<>>
        THEN [s |-> [s EXCEPT !.test_results = <<>>, !.total_tests = 0, !.passed_tests = 0,
                              !.final_score = 0, !.score_reason = "no test case"],
              all_passed |-> FALSE, ran |-> 0]
        ELSE IF passed = Len(results)
        THEN [s |-> [counted EXCEPT !.final_score = MaxScore(s),
                                    !.score_reason = "all passed"],
              all_passed |-> TRUE, ran |-> Len(results)]
        ELSE [s |-> counted, all_passed |-> FALSE, ran |-> Len(results)]

-----------------------------------------------------------------------------
(* llm_evaluator.py, llm_writer.py: the LLM collaborator                   *)

\* the keys of prompts.problem.problem_prompt_map
PromptProblems == {"1", "1_ex", "2", "2_ex", "3_a", "3_b", "3_ex", "4", "4_ex"}

\* the scores the rubric of the problem lets the LLM return
LLMScores(s) == IF IsExtra(s) THEN {0, ExtraMaxScore} ELSE {0, RegularRubric}

\* what a call of evaluate_with_llm can meet: the source cannot be read, the
\* API call fails, or a response with a score arrives
LLMOutcomes(s) ==
    {[kind |-> "read_error", score |-> 0], [kind |-> "api_error", score |-> 0]}
    \cup {[kind |-> "ok", score |-> n] : n \in LLMScores(s)}

\* evaluate_with_llm: the submission it leaves, and whether it raised
EvaluateWithLlm(s, llm) ==
    IF llm.kind = "read_error" THEN [s |-> s, raised |-> FALSE]
    ELSE IF s.problem_num \notin PromptProblems THEN [s |-> s, raised |-> TRUE]
    ELSE IF llm.kind = "api_error" THEN [s |-> s, raised |-> FALSE]
    ELSE [s |-> [s EXCEPT !.llm_response = TRUE,
                          !.final_score = llm.score,
                          !.score_reason = "llm"],
          raised |-> FALSE]

\* max_retries=3 in rewrite_with_llm
RewriteMaxRetries == 3

\* what one attempt of rewrite_code_with_retry can meet
RewriteAttempts == {"error", "mismatch", "match"}

\* rewrite_code_with_retry: whether it returns a rewritten file (line_match)
RewriteCodeWithRetry(read_ok, attempts) ==
    read_ok /\ \E a \in 1..RewriteMaxRetries : attempts[a] = "match"

-----------------------------------------------------------------------------
(* grader.py: the stages of grade_submission.  A job is a Submission, the  *)
(* position of grade_submission on it, and the history of what it called.  *)

NewJob(s) ==
    [s |-> s, pc |-> "queued", updates |-> <<>>, llm_calls |-> 0, tests_ran |-> 0]

\* the call update_progress_entry(submission.student_id, problem_key, score, reason)
CallUpdate(j, f, stage, score, reason) ==
    [job  |-> [j EXCEPT !.updates = Append(@, [stage |-> stage, score |-> score,
                                               reason |-> reason])],
     file |-> UpdateProgressEntry(f, j.s.student_id, GetProblemKey(j.s), score, reason)]

\* a mutated setup_workspace: the copy failure leaves graded_at unset
SetupWorkspaceNoStamp(j, f, copy_ok) ==
    IF ~copy_ok
    THEN CallUpdate([j EXCEPT !.s.compile_status = "failed",
                              !.s.compile_error = "copy failed",
                              !.s.final_score = 0,
                              !.s.score_reason = "copy failed"],
                    f, "setup", 0, "copy failed")
    ELSE [job |-> [j EXCEPT !.s.executable_path = "original"], file |-> f]

\* setup_workspace
SetupWorkspace(j, f, copy_ok) ==
    IF ~copy_ok
    THEN CallUpdate([j EXCEPT !.s.compile_status = "failed",
                              !.s.compile_error = "copy failed",
                              !.s.final_score = 0,
                              !.s.score_reason = "copy failed",
                              !.s.graded_at = TRUE],
                    f, "setup", 0, "copy failed")
    ELSE [job |-> [j EXCEPT !.s.executable_path = "original"], file |-> f]

\* a mutated compile_original: the failure is not written to the store
CompileOriginalNoUpdate(j, f, compile_ok) ==
    IF j.s.compile_status = "failed" THEN [job |-> j, file |-> f]
    ELSE IF ~compile_ok
    THEN [job |-> [j EXCEPT !.s.compile_status = "failed",
                            !.s.compile_error = "compiler error",
                            !.s.final_score = 0,
                            !.s.score_reason = "compile failed",
                            !.s.graded_at = TRUE],
          file |-> f]
    ELSE [job |-> [j EXCEPT !.s.compile_status = "success", !.s.compile_error = ""],
          file |-> f]

\* a mutated compile_original: it compiles whatever the earlier stage left
CompileOriginalAlways(j, f, compile_ok) ==
    IF ~compile_ok
    THEN CallUpdate([j EXCEPT !.s.compile_status = "failed",
                              !.s.compile_error = "compiler error",
                              !.s.final_score = 0,
                              !.s.score_reason = "compile failed",
                              !.s.graded_at = TRUE],
                    f, "compile", 0, "compile failed")
    ELSE [job |-> [j EXCEPT !.s.compile_status = "success", !.s.compile_error = ""],
          file |-> f]

\* compile_original
CompileOriginal(j, f, compile_ok) ==
    IF j.s.compile_status = "failed" THEN [job |-> j, file |-> f]
    ELSE IF ~compile_ok
    THEN CallUpdate([j EXCEPT !.s.compile_status = "failed",
                              !.s.compile_error = "compiler error",
                              !.s.final_score = 0,
                              !.s.score_reason = "compile failed",
                              !.s.graded_at = TRUE],
                    f, "compile", 0, "compile failed")
    ELSE [job |-> [j EXCEPT !.s.compile_status = "success", !.s.compile_error = ""],
          file |-> f]

\* rewrite_with_llm
RewriteWithLlm(j, f, line_match, rewrite_compile_success) ==
    IF j.s.compile_status = "failed" THEN [job |-> j, file |-> f]
    ELSE IF line_match /\ rewrite_compile_success
    THEN [job |-> [j EXCEPT !.s.executable_path = "rewrite"], file |-> f]
    ELSE [job |-> j, file |-> f]

\* run_tests
RunTests(j, f, exe_exists, outcomes) ==
    IF j.s.compile_status = "failed" THEN [job |-> j, file |-> f]
    ELSE LET r == RunAllTests([j.s EXCEPT !.graded_at = TRUE], exe_exists, outcomes)
             ran == [j EXCEPT !.s = r.s, !.tests_ran = @ + r.ran]
         IN  IF r.all_passed
             THEN CallUpdate(ran, f, "test", r.s.final_score, r.s.score_reason)
             ELSE [job |-> ran, file |-> f]

\* evaluate_with_llm_if_needed; raised: evaluate_with_llm raised
EvaluateWithLlmIfNeeded(j, f, llm) ==
    IF j.s.compile_status = "failed" THEN [job |-> j, file |-> f, raised |-> FALSE]
    ELSE IF j.s.passed_tests = j.s.total_tests THEN [job |-> j, file |-> f, raised |-> FALSE]
    ELSE LET e == EvaluateWithLlm(j.s, llm)
             called == [j EXCEPT !.s = e.s, !.llm_calls = @ + 1]
             u == CallUpdate(called, f, "llm", e.s.final_score, e.s.score_reason)
         IN  IF e.raised THEN [job |-> called, file |-> f, raised |-> TRUE]
             ELSE [job |-> u.job, file |-> u.file, raised |-> FALSE]

-----------------------------------------------------------------------------
(* Spec: one run of the grade command (main.py)                            *)

Init ==
    /\ file = <<>>
    /\ lock = NoThread
    /\ submissions = <<>>
    /\ toGrade = <<>>
    /\ phase = "start"
    /\ workers = 1
    /\ sub = <<>>
    /\ preFile = <<>>
    /\ lastOp = NoOp
    /\ th = <<>>
    /\ batch = <<>>
    /\ inp = <<>>
    /\ out = <<>>

\* grade(): all_submissions = scan_source_codes(...), with the --workers option
Scan ==
    /\ phase = "start"
    /\ \E d \in Discoveries(MaxSubs), w \in 1..MaxWorkers :
           /\ submissions' = d
           /\ workers' = w
    /\ phase' = "scanned"
    /\ UNCHANGED <<batch, inp, out, file, lock, toGrade, sub, preFile, lastOp, th>>

\* grade(): submissions, _ = filter_submissions_by_progress(all_submissions)
Filter ==
    /\ phase = "scanned"
    /\ LET r == FilterSubmissionsByProgress(submissions, file)
       IN  /\ file' = r.file
           /\ toGrade' = r.filtered
           /\ sub' = [i \in DOMAIN r.filtered |-> NewJob(r.filtered[i])]
           /\ phase' = IF r.filtered = <<>> THEN "exit" ELSE "grading"
    /\ preFile' = file
    /\ lastOp' = [NoOp EXCEPT !.name = "filter"]
    /\ UNCHANGED <<batch, inp, out, lock, submissions, workers, th>>

\* grade_submission is running on job i
InFlight(i) == sub[i].pc \notin {"queued", "done", "raised"}

\* grade_all_submissions_with_progress: the jobs start in list order, one at a
\* time for workers = 1, at most max_workers at once in the thread pool
CanStart(i) ==
    /\ \A k \in 1..(i - 1) : sub[k].pc # "queued"
    /\ Cardinality({k \in DOMAIN sub : InFlight(k)}) < workers

\* grade_submission: sub = setup_workspace(submission)
StageSetup(i) ==
    /\ phase = "grading"
    /\ sub[i].pc = "queued"
    /\ CanStart(i)
    /\ \E copy_ok \in BOOLEAN :
           LET r == SetupWorkspace(sub[i], file, copy_ok)
           IN  /\ sub' = [sub EXCEPT ![i] = [r.job EXCEPT !.pc = "compile"]]
               /\ file' = r.file
    /\ UNCHANGED <<batch, inp, out, lock, submissions, toGrade, phase, workers, preFile, lastOp, th>>

\* grade_submission: sub = compile_original(sub), and the return on failure
StageCompile(i) ==
    /\ phase = "grading"
    /\ sub[i].pc = "compile"
    /\ \E compile_ok \in BOOLEAN :
           LET r == CompileOriginal(sub[i], file, compile_ok)
           IN  /\ sub' = [sub EXCEPT ![i] =
                              [r.job EXCEPT !.pc = IF r.job.s.compile_status = "failed"
                                                   THEN "done" ELSE "rewrite"]]
               /\ file' = r.file
    /\ UNCHANGED <<batch, inp, out, lock, submissions, toGrade, phase, workers, preFile, lastOp, th>>

\* grade_submission: sub = rewrite_with_llm(sub)
StageRewrite(i) ==
    /\ phase = "grading"
    /\ sub[i].pc = "rewrite"
    /\ \E read_ok \in BOOLEAN, attempts \in [1..RewriteMaxRetries -> RewriteAttempts],
          rewrite_compile_success \in BOOLEAN :
           LET r == RewriteWithLlm(sub[i], file, RewriteCodeWithRetry(read_ok, attempts),
                                   rewrite_compile_success)
           IN  /\ sub' = [sub EXCEPT ![i] = [r.job EXCEPT !.pc = "test"]]
               /\ file' = r.file
    /\ UNCHANGED <<batch, inp, out, lock, submissions, toGrade, phase, workers, preFile, lastOp, th>>

\* grade_submission: sub = run_tests(sub)
StageTest(i) ==
    /\ phase = "grading"
    /\ sub[i].pc = "test"
    /\ \E exe_exists \in BOOLEAN,
          outcomes \in [DOMAIN TestCases(sub[i].s.problem_num) -> TestOutcomes] :
           LET r == RunTests(sub[i], file, exe_exists, outcomes)
           IN  /\ sub' = [sub EXCEPT ![i] = [r.job EXCEPT !.pc = "llm"]]
               /\ file' = r.file
    /\ UNCHANGED <<batch, inp, out, lock, submissions, toGrade, phase, workers, preFile, lastOp, th>>

\* grade_submission: sub = evaluate_with_llm_if_needed(sub); return sub
StageLlm(i) ==
    /\ phase = "grading"
    /\ sub[i].pc = "llm"
    /\ \E llm \in LLMOutcomes(sub[i].s) :
           LET r == EvaluateWithLlmIfNeeded(sub[i], file, llm)
           IN  /\ sub' = [sub EXCEPT ![i] =
                              [r.job EXCEPT !.pc = IF r.raised THEN "raised" ELSE "done"]]
               /\ file' = r.file
    /\ UNCHANGED <<batch, inp, out, lock, submissions, toGrade, phase, workers, preFile, lastOp, th>>

Next ==
    \/ Scan
    \/ Filter
    \/ \E i \in DOMAIN sub : StageSetup(i)
    \/ \E i \in DOMAIN sub : StageCompile(i)
    \/ \E i \in DOMAIN sub : StageRewrite(i)
    \/ \E i \in DOMAIN sub : StageTest(i)
    \/ \E i \in DOMAIN sub : StageLlm(i)

Spec == Init /\ [][Next]_vars

-----------------------------------------------------------------------------
(* Claims about the pipeline, under Spec                                   *)

\* grade_submission returned on job i
Returned(i) == sub[i].pc = "done"

\* the run graded every submission of the list
RunOver == phase = "grading" /\ \A i \in DOMAIN sub : sub[i].pc \in {"done", "raised"}

\* the score the store holds for the key of job i
StoredResult(f, i) ==
    DictGet(PDGet(ReadProgressLog(f), sub[i].s.student_id).problems, GetProblemKey(sub[i].s))

\* C1: every execution of grade_submission that returns has called
\* update_progress_entry exactly once for its submission.
C1_ExactlyOneUpdate ==
    \A i \in DOMAIN sub : Returned(i) => Len(sub[i].updates) = 1

\* the jobs of the run that grade the same (student_id, problem_key) as job i
SameKey(i) ==
    {k \in DOMAIN sub : /\ sub[k].s.student_id = sub[i].s.student_id
                        /\ GetProblemKey(sub[k].s) = GetProblemKey(sub[i].s)}

RECURSIVE SumUpdates(_)
SumUpdates(S) ==
    IF S = {} THEN 0
    ELSE LET k == CHOOSE k \in S : TRUE
         IN  Len(sub[k].updates) + SumUpdates(S \ {k})

\* C2: at the end of a run, each graded (student_id, problem_key) has had
\* exactly one update, and its stored score is not -1.
C2_OneUpdatePerKey ==
    RunOver =>
        \A i \in DOMAIN sub :
            /\ SumUpdates(SameKey(i)) = 1
            /\ StoredResult(file, i).score # Ungraded

\* job i fails in setup or compile in this step
FailsNow(i) ==
    /\ i \in DOMAIN sub
    /\ sub[i].s.compile_status # "failed"
    /\ i \in DOMAIN sub'
    /\ sub'[i].s.compile_status = "failed"

AllFixturesPassed(i) ==
    /\ sub[i].s.test_results # <<>>
    /\ \A n \in DOMAIN sub[i].s.test_results : sub[i].s.test_results[n].passed

\* run_all_tests ran the fixtures of job i and one of them failed
SomeFixtureFailed(i) ==
    \E n \in DOMAIN sub[i].s.test_results : ~sub[i].s.test_results[n].passed

\* what holds of a returned job whose fixtures all passed
FullScoreByTests(i) ==
    /\ sub[i].s.final_score = MaxScore(sub[i].s)
    /\ sub[i].updates = <<[stage |-> "test", score |-> MaxScore(sub[i].s),
                           reason |-> sub[i].s.score_reason]>>
    /\ sub[i].llm_calls = 0

\* C10: when compilation succeeds and every fixture passes, the final
\* score is the full-score value (5 extra, 31 regular), the run-tests stage
\* writes it to the store and the LLM scorer is not called; the full-score
\* value is never assigned when any fixture fails.
C10_FullScoreOnlyWhenAllPass ==
    \A i \in DOMAIN sub :
        Returned(i) /\ sub[i].s.compile_status = "success" =>
            /\ AllFixturesPassed(i) => FullScoreByTests(i)
            /\ SomeFixtureFailed(i) => sub[i].s.final_score # MaxScore(sub[i].s)

\* the last update_progress_entry call of job i, if it made one
LastUpdate(i) == sub[i].updates[Len(sub[i].updates)]

\* C11: whenever compilation succeeded and not all tests passed (a fixture
\* failed, or the problem has no fixtures), evaluate_with_llm is called and the
\* result is written to the progress store.
C11_LlmWhenNotAllPassed ==
    \A i \in DOMAIN sub :
        (Returned(i) /\ sub[i].s.compile_status = "success" /\ ~AllFixturesPassed(i)) =>
            /\ sub[i].llm_calls = 1
            /\ sub[i].updates # <<>>
            /\ LastUpdate(i) = [stage |-> "llm", score |-> sub[i].s.final_score,
                                reason |-> sub[i].s.score_reason]

\* evaluate_with_llm was called on job i and no response arrived
LlmFailed(i) == sub[i].llm_calls > 0 /\ ~sub[i].s.llm_response

\* C12: when the LLM scorer fails, the recorded result (final_score and
\* score_reason, and the score and reason written to the store) is a negative
\* score with a diagnostic reason.
C12_LlmFailureRecordedNegative ==
    \A i \in DOMAIN sub :
        (Returned(i) /\ LlmFailed(i)) =>
            /\ sub[i].s.final_score < 0
            /\ sub[i].s.score_reason # ""
            /\ sub[i].updates # <<>>
            /\ LastUpdate(i).score < 0
            /\ LastUpdate(i).reason # ""

-----------------------------------------------------------------------------
(* SpecStore: threads inside the three store functions (progress.py).      *)
(* Each thread makes one call; a step is one access to the lock or to the  *)
(* file.  open(log_path, 'w') empties the file at once, and the lines      *)
(* written reach it when the with block closes it.                         *)

Threads == 1..NumThreads

\* the (score, reason) pairs the threads give to update_progress_entry
ThreadScoreReasons ==
    {ProblemResult(0, "compile failed"), ProblemResult(5, "all passed")}

IdleThread ==
    [op |-> "none", pc |-> "idle", student_id |-> "", problem_key |-> "",
     score |-> 0, reason |-> "", local |-> <<>>, seen |-> <<>>, torn |-> FALSE]

\* the calls a thread can make
ThreadCalls ==
    {[IdleThread EXCEPT !.op = "read"]}
    \cup {[IdleThread EXCEPT !.op = "write", !.student_id = sid] : sid \in Students}
    \cup UNION {{[IdleThread EXCEPT !.op = "update", !.student_id = sid,
                                    !.problem_key = k, !.score = r.score,
                                    !.reason = r.reason] :
                     k \in StudentKeys(sid), r \in ThreadScoreReasons} : sid \in Students}

\* every student on disk initialised by the filter, before the threads start
InitStore ==
    /\ file = FilterSubmissionsByProgress(AllFiles, <<>>).file
    /\ lock = NoThread
    /\ submissions = <<>>
    /\ toGrade = <<>>
    /\ phase = "threads"
    /\ workers = NumThreads
    /\ sub = <<>>
    /\ preFile = <<>>
    /\ lastOp = NoOp
    /\ th = [t \in Threads |-> IdleThread]
    /\ batch = <<>>
    /\ inp = <<>>
    /\ out = <<>>

\* a mutated lock: acquire never waits
LockAlwaysFree(l) == TRUE

\* threading.Lock: acquire waits until no thread holds it
LockFree(l) == l = NoThread

\* a thread calls one of the three functions
Begin(t) ==
    /\ th[t].pc = "idle"
    /\ \E c \in ThreadCalls : th' = [th EXCEPT ![t] = [c EXCEPT !.pc = "acquire"]]
    /\ UNCHANGED <<batch, inp, out, file, lock, submissions, toGrade, phase, workers, sub, preFile, lastOp>>

\* with _file_lock: (entry)
Acquire(t) ==
    /\ th[t].pc = "acquire"
    /\ LockFree(lock)
    /\ lock' = t
    /\ th' = [th EXCEPT ![t].pc = "locked"]
    /\ UNCHANGED <<batch, inp, out, file, submissions, toGrade, phase, workers, sub, preFile, lastOp>>

\* some other thread has emptied the file and not yet rewritten it
BeingRewritten(t) == \E u \in Threads \ {t} : th[u].pc = "flush"

\* read_progress_log: the loop over the lines of the file
ReadStep(t) ==
    /\ th[t].pc = "locked"
    /\ th[t].op = "read"
    /\ th' = [th EXCEPT ![t].local = ParseLines(file, <<>>),
                        ![t].seen = file,
                        ![t].torn = BeingRewritten(t),
                        ![t].pc = "release"]
    /\ UNCHANGED <<batch, inp, out, file, lock, submissions, toGrade, phase, workers, sub, preFile, lastOp>>

\* write_progress_entry, called by initialize_student_progress
AppendStep(t) ==
    /\ th[t].pc = "locked"
    /\ th[t].op = "write"
    /\ file' = WriteProgressEntry(
                   file, SeedProblems(NewGradingProgress(th[t].student_id),
                                      ProblemKeys(SubmissionsOf(AllFiles, th[t].student_id))))
    /\ th' = [th EXCEPT ![t].seen = file, ![t].torn = BeingRewritten(t), ![t].pc = "release"]
    /\ UNCHANGED <<batch, inp, out, lock, submissions, toGrade, phase, workers, sub, preFile, lastOp>>

\* update_progress_entry: read all records
UpdateRead(t) ==
    /\ th[t].pc = "locked"
    /\ th[t].op = "update"
    /\ LET progress_dict == ParseLines(file, <<>>)
       IN  th' = [th EXCEPT ![t].local = progress_dict,
                            ![t].seen = file,
                            ![t].torn = BeingRewritten(t),
                            ![t].pc = IF Readable(file)
                                         /\ PDHas(progress_dict, th[t].student_id)
                                      THEN "apply" ELSE "release"]
    /\ UNCHANGED <<batch, inp, out, file, lock, submissions, toGrade, phase, workers, sub, preFile, lastOp>>

\* update_progress_entry: progress.update_problem_score(...), open(log_path, 'w')
UpdateTruncate(t) ==
    /\ th[t].pc = "apply"
    /\ th' = [th EXCEPT ![t].local =
                            PDSet(@, UpdateProblemScore(PDGet(@, th[t].student_id),
                                                        th[t].problem_key, th[t].score,
                                                        th[t].reason)),
                        ![t].pc = "flush"]
    /\ file' = <<>>
    /\ UNCHANGED <<batch, inp, out, lock, submissions, toGrade, phase, workers, sub, preFile, lastOp>>

\* update_progress_entry: the lines written, the file closed
UpdateFlush(t) ==
    /\ th[t].pc = "flush"
    /\ file' = RewriteAll(th[t].local)
    /\ th' = [th EXCEPT ![t].pc = "release"]
    /\ UNCHANGED <<batch, inp, out, lock, submissions, toGrade, phase, workers, sub, preFile, lastOp>>

\* with _file_lock: (exit)
Release(t) ==
    /\ th[t].pc = "release"
    /\ lock' = IF lock = t THEN NoThread ELSE lock
    /\ th' = [th EXCEPT ![t].pc = "done"]
    /\ UNCHANGED <<batch, inp, out, file, submissions, toGrade, phase, workers, sub, preFile, lastOp>>

NextStore ==
    \/ \E t \in Threads : Begin(t)
    \/ \E t \in Threads : Acquire(t)
    \/ \E t \in Threads : ReadStep(t)
    \/ \E t \in Threads : AppendStep(t)
    \/ \E t \in Threads : UpdateRead(t)
    \/ \E t \in Threads : UpdateTruncate(t)
    \/ \E t \in Threads : UpdateFlush(t)
    \/ \E t \in Threads : Release(t)

SpecStore == InitStore /\ [][NextStore]_vars

-----------------------------------------------------------------------------
(* Claims about the lock, under SpecStore                                  *)

\* every thread called update_progress_entry, no two for the same
\* (student_id, problem_key), and every call has returned
DistinctUpdatesDone ==
    /\ \A t \in Threads : th[t].op = "update" /\ th[t].pc = "done"
    /\ \A t, u \in Threads :
           t # u => <<th[t].student_id, th[t].problem_key>>
                        # <<th[u].student_id, th[u].problem_key>>

\* C4: concurrent update_progress_entry calls of N workers on distinct problem
\* keys of initialised students leave, in every interleaving, a store whose
\* read_progress_log result holds the score and reason of all N updates.
C4_NoLostUpdate ==
    DistinctUpdatesDone =>
        \A t \in Threads :
            /\ PDHas(Stored, th[t].student_id)
            /\ DictHas(PDGet(Stored, th[t].student_id).problems, th[t].problem_key)
            /\ DictGet(PDGet(Stored, th[t].student_id).problems, th[t].problem_key)
                   = ProblemResult(th[t].score, th[t].reason)

\* every worker's update has returned, two of them for different students
C4_Witness ==
    /\ DistinctUpdatesDone
    /\ \E t, u \in Threads : th[t].student_id # th[u].student_id
    /\ \A t \in Threads : th[t].score = 5

\* the thread is inside `with _file_lock`
InCritical(t) == th[t].pc \in {"locked", "apply", "flush", "release"}

\* C5: the three store functions exclude each other: at most one thread is
\* inside any of them; no call reads the file while an update has emptied and
\* not yet rewritten it; and between the read and the rewrite of an update the
\* file is as that update read it.
C5_MutualExclusion ==
    /\ \A t, u \in Threads : t # u => ~(InCritical(t) /\ InCritical(u))
    /\ \A t \in Threads : ~th[t].torn
    /\ \A t \in Threads : th[t].pc = "apply" => file = th[t].seen

\* an update has emptied the file while a reader and nothing else waits
C5_Witness ==
    \E t, u \in Threads :
        /\ th[t].op = "update" /\ th[t].pc = "flush"
        /\ th[u].op = "read" /\ th[u].pc = "acquire"

-----------------------------------------------------------------------------
(* SpecBatch: the two batch entry points, grade_all_submissions_with_progress *)
(* (main.py) and grade_all_submissions (grader.py), over a list of          *)
(* submissions.  A call of grade_submission returns a Submission or raises  *)
(* (Path.mkdir in setup_workspace and get_prompt in evaluate_with_llm are   *)
(* outside every try).                                                     *)

\* at most this many submissions in a batch
MaxBatch == 3

BatchEntries == {"grade_all_submissions_with_progress", "grade_all_submissions"}

\* how a call of grade_submission ends: a Submission that counts as success,
\* one that counts as failed (compile failed or final_score 0), an exception
GradeOutcomes == {"success", "failed", "raised"}

\* grade_submission has ended on a job in this position
TerminalJob(pc) == pc \in GradeOutcomes

NewBatch(entry, w, n) ==
    [entry |-> entry, workers |-> w, jobs |-> [i \in 1..n |-> "queued"],
     graded_submissions |-> <<>>, collected |-> {},
     success_count |-> 0, failed_count |-> 0, state |-> "running"]

InitBatch ==
    /\ file = <<>>
    /\ lock = NoThread
    /\ submissions = <<>>
    /\ toGrade = <<>>
    /\ phase = "batch"
    /\ workers = 1
    /\ sub = <<>>
    /\ preFile = <<>>
    /\ lastOp = NoOp
    /\ th = <<>>
    /\ batch \in {NewBatch(entry, w, n) :
                      entry \in BatchEntries, w \in 1..MaxWorkers, n \in 1..MaxBatch}
    /\ inp = <<>>
    /\ out = <<>>

\* the try/except around one result of grade_all_submissions_with_progress
CollectWithProgress(b, i, outcome) ==
    IF outcome = "raised"
    THEN [b EXCEPT !.collected = @ \cup {i}, !.failed_count = @ + 1]
    ELSE [b EXCEPT !.collected = @ \cup {i},
                   !.graded_submissions = Append(@, i),
                   !.success_count = IF outcome = "success" THEN @ + 1 ELSE @,
                   !.failed_count = IF outcome = "failed" THEN @ + 1 ELSE @]

\* one element of the list grade_all_submissions builds; nothing is caught
CollectPlain(b, i, outcome) ==
    IF outcome = "raised"
    THEN [b EXCEPT !.collected = @ \cup {i},
                   !.state = IF b.workers > 1 THEN "unwinding" ELSE "raised"]
    ELSE [b EXCEPT !.collected = @ \cup {i}, !.graded_submissions = Append(@, i)]

Collect(b, i, outcome) ==
    IF b.entry = "grade_all_submissions_with_progress"
    THEN CollectWithProgress(b, i, outcome)
    ELSE CollectPlain(b, i, outcome)

\* workers = 1: the loop (or list comprehension) grades the next submission
SeqGrade ==
    /\ batch.state = "running"
    /\ batch.workers = 1
    /\ \E i \in DOMAIN batch.jobs, outcome \in GradeOutcomes :
           /\ batch.jobs[i] = "queued"
           /\ \A k \in 1..(i - 1) : batch.jobs[k] # "queued"
           /\ batch' = Collect([batch EXCEPT !.jobs[i] = outcome], i, outcome)
    /\ UNCHANGED <<file, lock, submissions, toGrade, phase, workers, sub, preFile, lastOp,
                   th, inp, out>>

\* workers > 1: a pool thread takes the next submitted call
PoolStart ==
    /\ batch.state \in {"running", "unwinding"}
    /\ batch.workers > 1
    /\ \E i \in DOMAIN batch.jobs :
           /\ batch.jobs[i] = "queued"
           /\ \A k \in 1..(i - 1) : batch.jobs[k] # "queued"
           /\ Cardinality({k \in DOMAIN batch.jobs : batch.jobs[k] = "started"})
                  < batch.workers
           /\ batch' = [batch EXCEPT !.jobs[i] = "started"]
    /\ UNCHANGED <<file, lock, submissions, toGrade, phase, workers, sub, preFile, lastOp,
                   th, inp, out>>

\* workers > 1: grade_submission ends in a pool thread
PoolFinish ==
    /\ batch.state \in {"running", "unwinding"}
    /\ \E i \in DOMAIN batch.jobs, outcome \in GradeOutcomes :
           /\ batch.jobs[i] = "started"
           /\ batch' = [batch EXCEPT !.jobs[i] = outcome]
    /\ UNCHANGED <<file, lock, submissions, toGrade, phase, workers, sub, preFile, lastOp,
                   th, inp, out>>

\* workers > 1: future.result() in the caller: as_completed yields any finished
\* future, [f.result() for f in futures] waits for them in list order
PoolCollect ==
    /\ batch.state = "running"
    /\ batch.workers > 1
    /\ \E i \in DOMAIN batch.jobs \ batch.collected :
           /\ TerminalJob(batch.jobs[i])
           /\ batch.entry = "grade_all_submissions" =>
                  \A k \in 1..(i - 1) : k \in batch.collected
           /\ batch' = Collect(batch, i, batch.jobs[i])
    /\ UNCHANGED <<file, lock, submissions, toGrade, phase, workers, sub, preFile, lastOp,
                   th, inp, out>>

\* the entry point returns its list, or the exception leaves it; the pool's
\* with block first waits for every submitted call
BatchEnd ==
    /\ \/ batch.state = "running" /\ batch.collected = DOMAIN batch.jobs
       \/ batch.state = "unwinding"
    /\ \A i \in DOMAIN batch.jobs : TerminalJob(batch.jobs[i])
    /\ batch' = [batch EXCEPT !.state = IF batch.state = "unwinding"
                                        THEN "raised" ELSE "returned"]
    /\ UNCHANGED <<file, lock, submissions, toGrade, phase, workers, sub, preFile, lastOp,
                   th, inp, out>>

NextBatch == SeqGrade \/ PoolStart \/ PoolFinish \/ PoolCollect \/ BatchEnd

SpecBatch == InitBatch /\ [][NextBatch]_vars

\* the entry point has returned or an exception has left it
BatchOver == batch.state \in {"returned", "raised"}

\* the submissions of the batch on which grade_submission ended in this way
JobsEnded(outcome) == {i \in DOMAIN batch.jobs : batch.jobs[i] = outcome}

\* C13: an exception raised while grading one submission never aborts the
\* batch: the entry point returns, every submission of the batch has been
\* graded to a terminal state, the returned list holds the submissions that
\* did not raise, and the one that raised is counted as failed; for both entry
\* points, with one worker and with a pool.
C13_ExceptionNeverAbortsBatch ==
    BatchOver =>
        /\ batch.state = "returned"
        /\ \A i \in DOMAIN batch.jobs : TerminalJob(batch.jobs[i])
        /\ {batch.graded_submissions[k] : k \in DOMAIN batch.graded_submissions}
               = JobsEnded("success") \cup JobsEnded("failed")
        /\ batch.entry = "grade_all_submissions_with_progress" =>
               /\ batch.failed_count
                      = Cardinality(JobsEnded("raised") \cup JobsEnded("failed"))
               /\ batch.success_count = Cardinality(JobsEnded("success"))

-----------------------------------------------------------------------------
(* models.py: StudentGrade; report.py: aggregate_grades.  An Optional[int] *)
(* is a record that says whether a value is there.  A defaultdict is the   *)
(* sequence of its entries in insertion order.                             *)

\* Optional[int]: None, or an int
None == [some |-> FALSE, v |-> 0]

Some(n) == [some |-> TRUE, v |-> n]

\* `x if x is not None else 0`
OrZero(o) == IF o.some THEN o.v ELSE 0

\* the base problems that have a slot: the keys of score_mapping
Bases == {"1", "2", "3", "4"}

\* StudentGrade(student_id=...): P1..P3 and the extras are None, P4_score is 0
NewStudentGrade(student_id) ==
    [student_id |-> student_id,
     score |-> [b \in Bases |-> IF b = "4" THEN Some(0) ELSE None],
     reason |-> [b \in Bases |-> ""],
     extra |-> [b \in Bases |-> None],
     extra_reason |-> [b \in Bases |-> ""],
     total_score |-> 0]

\* s.split('_')[0]
SplitFirst(s) ==
    IF Contains(s, "_")
    THEN SubSeq(s, 1, (CHOOSE i \in 1..Len(s) :
                           /\ SubSeq(s, i, i) = "_"
                           /\ \A k \in 1..(i - 1) : SubSeq(s, k, k) # "_") - 1)
    ELSE s

RECURSIVE RemoveEx(_)
\* s.replace('_ex', '')
RemoveEx(s) ==
    IF Contains(s, "_ex")
    THEN LET i == CHOOSE i \in 1..Len(s) :
                      /\ SubSeq(s, i, i + 2) = "_ex"
                      /\ \A k \in 1..(i - 1) : SubSeq(s, k, k + 2) # "_ex"
         IN  SubSeq(s, 1, i - 1) \o RemoveEx(SubSeq(s, i + 3, Len(s)))
    ELSE s

RECURSIVE Join(_, _)
\* sep.join(items)
Join(items, sep) ==
    IF items = <<>> THEN ""
    ELSE IF Len(items) = 1 THEN items[1]
    ELSE items[1] \o sep \o Join(Tail(items), sep)

\* f'{problem_num}: {reason}'
PartReason(problem_num, reason) == problem_num \o ": " \o reason

\* a mutated accumulation: the score of a part replaces the score so far
AccumulateLast(acc, base_problem, score, problem_num, reason) ==
    LET item == IF reason # "" THEN <<PartReason(problem_num, reason)>> ELSE <<>>
    IN  IF \E i \in DOMAIN acc : acc[i].base = base_problem
        THEN [i \in DOMAIN acc |->
                  IF acc[i].base = base_problem
                  THEN [acc[i] EXCEPT !.score = score, !.reasons = @ \o item]
                  ELSE acc[i]]
        ELSE Append(acc, [base |-> base_problem, score |-> score, reasons |-> item])

\* scores[base_problem] += score; if reason: reasons[base_problem].append(...)
Accumulate(acc, base_problem, score, problem_num, reason) ==
    LET item == IF reason # "" THEN <<PartReason(problem_num, reason)>> ELSE <<>>
    IN  IF \E i \in DOMAIN acc : acc[i].base = base_problem
        THEN [i \in DOMAIN acc |->
                  IF acc[i].base = base_problem
                  THEN [acc[i] EXCEPT !.score = @ + score, !.reasons = @ \o item]
                  ELSE acc[i]]
        ELSE Append(acc, [base |-> base_problem, score |-> score, reasons |-> item])

\* a mutated _apply_problem_scores: a slot that has a score keeps it
ApplyProblemScoresKeep(grade, acc, is_extra) ==
    LET touched(b) == \E i \in DOMAIN acc : acc[i].base = b
        entry(b) == acc[CHOOSE i \in DOMAIN acc : acc[i].base = b]
    IN  IF is_extra
        THEN [grade EXCEPT
                 !.extra = [b \in Bases |-> IF touched(b) /\ ~grade.extra[b].some
                                            THEN Some(entry(b).score) ELSE @[b]],
                 !.extra_reason = [b \in Bases |-> IF touched(b) /\ ~grade.extra[b].some
                                                   THEN Join(entry(b).reasons, "; ")
                                                   ELSE @[b]]]
        ELSE [grade EXCEPT
                 !.score = [b \in Bases |-> IF touched(b) /\ ~grade.score[b].some
                                            THEN Some(entry(b).score) ELSE @[b]],
                 !.reason = [b \in Bases |-> IF touched(b) /\ ~grade.score[b].some
                                             THEN Join(entry(b).reasons, "; ") ELSE @[b]]]

\* a mutated _apply_problem_scores: the slots it does not set are cleared
ApplyProblemScoresClear(grade, acc, is_extra) ==
    LET touched(b) == \E i \in DOMAIN acc : acc[i].base = b
        entry(b) == acc[CHOOSE i \in DOMAIN acc : acc[i].base = b]
    IN  IF is_extra
        THEN [grade EXCEPT
                 !.extra = [b \in Bases |-> IF touched(b)
                                            THEN Some(entry(b).score) ELSE None],
                 !.extra_reason = [b \in Bases |-> IF touched(b)
                                                   THEN Join(entry(b).reasons, "; ")
                                                   ELSE ""]]
        ELSE [grade EXCEPT
                 !.score = [b \in Bases |-> IF touched(b)
                                            THEN Some(entry(b).score) ELSE None],
                 !.reason = [b \in Bases |-> IF touched(b)
                                             THEN Join(entry(b).reasons, "; ") ELSE ""]]

\* _apply_problem_scores: every base problem of the accumulator that has a
\* slot gets its total and its joined reasons
ApplyProblemScores(grade, acc, is_extra) ==
    LET touched(b) == \E i \in DOMAIN acc : acc[i].base = b
        entry(b) == acc[CHOOSE i \in DOMAIN acc : acc[i].base = b]
    IN  IF is_extra
        THEN [grade EXCEPT
                 !.extra = [b \in Bases |-> IF touched(b)
                                            THEN Some(entry(b).score) ELSE @[b]],
                 !.extra_reason = [b \in Bases |-> IF touched(b)
                                                   THEN Join(entry(b).reasons, "; ")
                                                   ELSE @[b]]]
        ELSE [grade EXCEPT
                 !.score = [b \in Bases |-> IF touched(b)
                                            THEN Some(entry(b).score) ELSE @[b]],
                 !.reason = [b \in Bases |-> IF touched(b)
                                             THEN Join(entry(b).reasons, "; ") ELSE @[b]]]

\* a mutated test: no entry counts as ungraded
NeverUngraded(result) == FALSE

\* `if result.score == -1: continue`
IsUngradedResult(result) == result.score = Ungraded

RECURSIVE JsonlScores(_, _)
\* the loop of _apply_jsonl_progress over progress.problems.items()
JsonlScores(problems, acc) ==
    IF problems = <<>> THEN acc
    ELSE LET problem_key == Head(problems).key
             result == Head(problems).result
             problem_num == SubSeq(problem_key, 2, Len(problem_key))
             is_extra == Contains(problem_num, "_ex")
             base_problem == IF is_extra THEN SplitFirst(RemoveEx(problem_num))
                             ELSE SplitFirst(problem_num)
         IN  IF IsUngradedResult(result) THEN JsonlScores(Tail(problems), acc)
             ELSE IF is_extra
             THEN JsonlScores(Tail(problems),
                              [acc EXCEPT !.extra = Accumulate(@, base_problem, result.score,
                                                               problem_num, result.reason)])
             ELSE JsonlScores(Tail(problems),
                              [acc EXCEPT !.regular = Accumulate(@, base_problem,
                                                                 result.score, problem_num,
                                                                 result.reason)])

\* _apply_jsonl_progress
ApplyJsonlProgress(grade, progress) ==
    LET acc == JsonlScores(progress.problems, [regular |-> <<>>, extra |-> <<>>])
    IN  ApplyProblemScores(ApplyProblemScores(grade, acc.regular, FALSE), acc.extra, TRUE)

RECURSIVE ProcessSubmissionScores(_, _)
\* _process_submission_scores
ProcessSubmissionScores(subs, acc) ==
    IF subs = <<>> THEN acc
    ELSE LET s == Head(subs)
             base_problem == SplitFirst(s.problem_num)
         IN  IF IsExtra(s)
             THEN ProcessSubmissionScores(
                      Tail(subs),
                      [acc EXCEPT !.extra = Accumulate(@, base_problem, s.final_score,
                                                       s.problem_num, s.score_reason)])
             ELSE ProcessSubmissionScores(
                      Tail(subs),
                      [acc EXCEPT !.regular = Accumulate(@, base_problem, s.final_score,
                                                         s.problem_num, s.score_reason)])

\* optional_scores.sort() on the three optional scores
SortThree(a, b, c) ==
    LET lo == IF a <= b /\ a <= c THEN a ELSE IF b <= c THEN b ELSE c
        hi == IF a >= b /\ a >= c THEN a ELSE IF b >= c THEN b ELSE c
    IN  <<lo, a + b + c - lo - hi, hi>>

\* a mutated calculate_total_score: always the highest two
CalculateTotalScoreTopTwo(grade) ==
    LET optional_scores == SortThree(OrZero(grade.score["1"]), OrZero(grade.score["2"]),
                                     OrZero(grade.score["3"]))
    IN  [grade EXCEPT !.total_score =
             optional_scores[2] + optional_scores[3] + OrZero(grade.score["4"])
             + OrZero(grade.extra["1"]) + OrZero(grade.extra["2"])
             + OrZero(grade.extra["3"]) + OrZero(grade.extra["4"])]

\* StudentGrade.calculate_total_score: the grade with total_score set
CalculateTotalScore(grade) ==
    LET optional_scores == SortThree(OrZero(grade.score["1"]), OrZero(grade.score["2"]),
                                     OrZero(grade.score["3"]))
        min_score == optional_scores[1]
        selected_two == IF min_score = 0
                        THEN optional_scores[2] + optional_scores[3]
                        ELSE optional_scores[1] + optional_scores[2]
        regular_total == selected_two + grade.score["4"].v
        extra_total == OrZero(grade.extra["1"]) + OrZero(grade.extra["2"])
                       + OrZero(grade.extra["3"]) + OrZero(grade.extra["4"])
    IN  [grade EXCEPT !.total_score = regular_total + extra_total]

\* the student ids of a dict of records keyed by student_id
Ids(d) == {d[i].student_id : i \in DOMAIN d}

\* a mutated population: the CSV snapshot is left out
AllStudentIdsNoCsv(progress_dict, csv_grades, subs) == Ids(progress_dict) \cup Ids(subs)

\* set(progress_dict.keys()) | set(csv_grades.keys()) | set(student_submissions.keys())
AllStudentIds(progress_dict, csv_grades, subs) ==
    Ids(progress_dict) \cup Ids(csv_grades) \cup Ids(subs)

\* the body of the loop of aggregate_grades for one student
AggregateStudent(student_id, progress_dict, csv_grades, subs) ==
    LET initial == IF student_id \in Ids(csv_grades)
                   THEN PDGet(csv_grades, student_id)
                   ELSE NewStudentGrade(student_id)
        restored == IF PDHas(progress_dict, student_id)
                    THEN ApplyJsonlProgress(initial, PDGet(progress_dict, student_id))
                    ELSE initial
        mine == SubmissionsOf(subs, student_id)
        acc == ProcessSubmissionScores(mine, [regular |-> <<>>, extra |-> <<>>])
    IN  IF mine = <<>> THEN CalculateTotalScore(restored)
        ELSE CalculateTotalScore(
                 ApplyProblemScores(ApplyProblemScores(restored, acc.regular, FALSE),
                                    acc.extra, TRUE))

\* aggregate_grades; order is the order in which the set of ids is iterated
AggregateGrades(progress_dict, csv_grades, subs, order) ==
    [i \in DOMAIN order |-> AggregateStudent(order[i], progress_dict, csv_grades, subs)]

-----------------------------------------------------------------------------
(* SpecReport: aggregate_grades applied to a progress store, a CSV         *)
(* snapshot and a list of fresh submissions                                *)

\* at most this many results of a student, store entries and fresh submissions
\* taken together
MaxParts == 3

\* the problems the sources hold results for
ReportProblems == {"1", "3_a", "3_b", "3_ex"}

RECURSIVE InjSeqs(_, _)
\* the sequences of at most n different elements of S
InjSeqs(S, n) ==
    IF n = 0 THEN {<<>>}
    ELSE LET shorter == InjSeqs(S, n - 1)
         IN  shorter \cup UNION {{Append(q, x) : x \in S \ {q[i] : i \in DOMAIN q}} :
                                     q \in shorter}

\* the results a store entry holds: not graded yet, or a score with its reason
StoreResults == {ProblemResult(Ungraded, ""), ProblemResult(4, "st")}

\* the final_score and score_reason a fresh submission ends with
FreshResults == {ProblemResult(6, "fr"), ProblemResult(0, "")}

\* a GradingProgress record of the store with the given entries
StoreRecord(student_id, nums, results) ==
    [student_id |-> student_id,
     problems |-> [i \in DOMAIN nums |-> [key |-> "P" \o nums[i], result |-> results[i]]],
     completed |-> \A i \in DOMAIN nums : results[i].score # Ungraded]

\* the store records a student can have
StoreRecords(student_id) ==
    UNION {{StoreRecord(student_id, nums, results) :
                results \in [DOMAIN nums -> StoreResults]} :
               nums \in InjSeqs(ReportProblems, MaxParts) \ {<<>>}}

\* a graded Submission
GradedSubmission(student_id, problem_num, result) ==
    [NewSubmission(student_id, problem_num, student_id \o "_P" \o problem_num \o ".c")
         EXCEPT !.compile_status = "success", !.final_score = result.score,
                !.score_reason = result.reason, !.graded_at = TRUE]

\* the lists of fresh submissions a student can have
FreshLists(student_id) ==
    UNION {{[i \in DOMAIN nums |-> GradedSubmission(student_id, nums[i], results[i])] :
                results \in [DOMAIN nums -> FreshResults]} :
               nums \in InjSeqs(ReportProblems, MaxParts)}

\* read_existing_grades: the StudentGrade of a CSV row with P1 = 3, P3 blank,
\* P4 = 0 and P3_extra = 1
CsvGrade(student_id) ==
    [NewStudentGrade(student_id) EXCEPT !.score["1"] = Some(3), !.reason["1"] = "csv",
                                        !.extra["3"] = Some(1),
                                        !.extra_reason["3"] = "csv extra"]

\* the sources in which a second student appears
OtherStudentSources == {"none", "store", "csv", "fresh"}

\* the (store, fresh submissions) pairs of the first student within MaxParts
StoreAndFresh ==
    {p \in ({<<>>} \cup {<<r>> : r \in StoreRecords("s1")}) \X FreshLists("s1") :
         (IF p[1] = <<>> THEN 0 ELSE Len(p[1][1].problems)) + Len(p[2]) <= MaxParts}

ReportInputs ==
    {[progress_dict |-> p[1] \o (IF other = "store"
                                 THEN <<StoreRecord("s2", <<"1">>, <<ProblemResult(4, "st")>>)>>
                                 ELSE <<>>),
      csv_grades |-> csv \o (IF other = "csv" THEN <<CsvGrade("s2")>> ELSE <<>>),
      submissions |-> p[2] \o (IF other = "fresh"
                               THEN <<GradedSubmission("s2", "1", ProblemResult(6, "fr"))>>
                               ELSE <<>>)] :
         p \in StoreAndFresh,
         csv \in {<<>>, <<CsvGrade("s1")>>},
         other \in OtherStudentSources}

InitReport ==
    /\ file = <<>>
    /\ lock = NoThread
    /\ submissions = <<>>
    /\ toGrade = <<>>
    /\ phase = "report"
    /\ workers = 1
    /\ sub = <<>>
    /\ preFile = <<>>
    /\ lastOp = NoOp
    /\ th = <<>>
    /\ batch = <<>>
    /\ inp \in ReportInputs
    /\ out = <<>>

\* the orders in which the set all_student_ids can be iterated
Orders(S) == {q \in InjSeqs(S, Cardinality(S)) : Len(q) = Cardinality(S)}

\* grades = aggregate_grades(submissions, existing_csv_path)
Aggregate ==
    /\ phase = "report"
    /\ \E order \in Orders(AllStudentIds(inp.progress_dict, inp.csv_grades, inp.submissions)) :
           out' = AggregateGrades(inp.progress_dict, inp.csv_grades, inp.submissions, order)
    /\ phase' = "reported"
    /\ UNCHANGED <<file, lock, submissions, toGrade, workers, sub, preFile, lastOp, th,
                   batch, inp>>

NextReport == Aggregate

SpecReport == InitReport /\ [][NextReport]_vars

-----------------------------------------------------------------------------
(* Claims about aggregate_grades, under SpecReport                         *)

\* aggregate_grades has returned
Reported == phase = "reported"

\* the base problem a part belongs to: the digit its problem number starts with
BaseOfPart(problem_num) == SubSeq(problem_num, 1, 1)

\* the part is an extra-credit part: its problem number ends in _ex
IsExtraPart(problem_num) ==
    Len(problem_num) >= 3 /\ SubSeq(problem_num, Len(problem_num) - 2, Len(problem_num)) = "_ex"

\* the fresh submissions of the student for a slot, as (part, score, reason)
FreshParts(student_id, b, extra) ==
    LET mine == SelectSeq(inp.submissions,
                          LAMBDA s : /\ s.student_id = student_id
                                     /\ BaseOfPart(s.problem_num) = b
                                     /\ IsExtraPart(s.problem_num) = extra)
    IN  [i \in DOMAIN mine |-> [part |-> mine[i].problem_num, score |-> mine[i].final_score,
                                reason |-> mine[i].score_reason]]

\* the entries of the student's store record for a slot, as (part, score, reason)
StoreEntries(student_id, b, extra) ==
    IF student_id \notin Ids(inp.progress_dict) THEN <<>>
    ELSE LET record == inp.progress_dict[CHOOSE i \in DOMAIN inp.progress_dict :
                                             inp.progress_dict[i].student_id = student_id]
             all == [i \in DOMAIN record.problems |->
                        [part |-> SubSeq(record.problems[i].key, 2,
                                         Len(record.problems[i].key)),
                         score |-> record.problems[i].result.score,
                         reason |-> record.problems[i].result.reason]]
         IN  SelectSeq(all, LAMBDA e : BaseOfPart(e.part) = b /\ IsExtraPart(e.part) = extra)

\* the graded ones among them
StoreParts(student_id, b, extra) ==
    SelectSeq(StoreEntries(student_id, b, extra), LAMBDA e : e.score # -1)

\* what the CSV snapshot holds for the slot, blank if it has no row of the student
CsvSlot(student_id, b, extra) ==
    LET row == IF student_id \in Ids(inp.csv_grades)
               THEN inp.csv_grades[CHOOSE i \in DOMAIN inp.csv_grades :
                                       inp.csv_grades[i].student_id = student_id]
               ELSE NewStudentGrade(student_id)
    IN  IF extra THEN [score |-> row.extra[b], reason |-> row.extra_reason[b]]
        ELSE [score |-> row.score[b], reason |-> row.reason[b]]

\* the slot of a StudentGrade
Slot(grade, b, extra) ==
    IF extra THEN [score |-> grade.extra[b], reason |-> grade.extra_reason[b]]
    ELSE [score |-> grade.score[b], reason |-> grade.reason[b]]

RECURSIVE SumOfParts(_)
SumOfParts(parts) == IF parts = <<>> THEN 0 ELSE Head(parts).score + SumOfParts(Tail(parts))

\* C14: for every student and every slot, aggregate_grades takes the score of
\* the highest-precedence source that has one: fresh submissions, then store
\* entries with score # -1, then the CSV row, then blank.
C14_Precedence ==
    Reported =>
        \A i \in DOMAIN out, b \in Bases, extra \in BOOLEAN :
            LET fresh == FreshParts(out[i].student_id, b, extra)
                store == StoreParts(out[i].student_id, b, extra)
            IN  Slot(out[i], b, extra).score
                    = IF fresh # <<>> THEN Some(SumOfParts(fresh))
                      ELSE IF store # <<>> THEN Some(SumOfParts(store))
                      ELSE CsvSlot(out[i].student_id, b, extra).score

\* CSV P1 = 3, store P1 = 4 and a fresh P1 = 6 gave 6
C14_Witness ==
    /\ Reported
    /\ \E i \in DOMAIN out :
           /\ CsvSlot(out[i].student_id, "1", FALSE).score = Some(3)
           /\ SumOfParts(StoreParts(out[i].student_id, "1", FALSE)) = 4
           /\ SumOfParts(FreshParts(out[i].student_id, "1", FALSE)) = 6
           /\ out[i].score["1"] = Some(6)

\* C15: the overlay of the fresh submissions changes only the slots they touch:
\* every other slot has the score and reason that aggregate_grades gives without
\* the fresh submissions.
C15_FreshOverlayFrame ==
    Reported =>
        \A i \in DOMAIN out, b \in Bases, extra \in BOOLEAN :
            FreshParts(out[i].student_id, b, extra) = <<>> =>
                Slot(out[i], b, extra)
                    = Slot(AggregateStudent(out[i].student_id, inp.progress_dict,
                                            inp.csv_grades, <<>>), b, extra)

\* fresh submissions touched P3 only, and P1 kept the store's score
C15_Witness ==
    /\ Reported
    /\ \E i \in DOMAIN out :
           /\ FreshParts(out[i].student_id, "3", FALSE) # <<>>
           /\ FreshParts(out[i].student_id, "1", FALSE) = <<>>
           /\ StoreParts(out[i].student_id, "1", FALSE) # <<>>
           /\ out[i].score["1"] = Some(4)
           /\ out[i].reason["1"] = "1: st"
           /\ out[i].extra["3"] = Some(1)

\* C16: the output holds exactly one StudentGrade for each student_id of the
\* union of the store, the CSV snapshot and the fresh submissions, and nothing
\* else.
C16_OutputPopulation ==
    Reported =>
        LET union == {inp.progress_dict[i].student_id : i \in DOMAIN inp.progress_dict}
                     \cup {inp.csv_grades[i].student_id : i \in DOMAIN inp.csv_grades}
                     \cup {inp.submissions[i].student_id : i \in DOMAIN inp.submissions}
        IN  /\ {out[i].student_id : i \in DOMAIN out} = union
            /\ Len(out) = Cardinality(union)

\* one student only in the CSV, the other only among the fresh submissions
C16_Witness ==
    /\ Reported
    /\ Len(out) = 2
    /\ inp.progress_dict = <<>>
    /\ Len(inp.csv_grades) = 1
    /\ \A i \in DOMAIN inp.submissions :
           inp.submissions[i].student_id # inp.csv_grades[1].student_id

\* '<part>: <reason>' for every part
AllPartItems(parts) == [i \in DOMAIN parts |-> parts[i].part \o ": " \o parts[i].reason]

\* '<part>: <reason>' for the parts that have a reason
ReasonedPartItems(parts) == AllPartItems(SelectSeq(parts, LAMBDA e : e.reason # ""))

\* the parts that decide a slot: the fresh ones, else the graded store entries
DecidingParts(student_id, b, extra) ==
    IF FreshParts(student_id, b, extra) # <<>> THEN FreshParts(student_id, b, extra)
    ELSE StoreParts(student_id, b, extra)

RECURSIVE JoinItems(_)
JoinItems(items) ==
    IF items = <<>> THEN ""
    ELSE IF Tail(items) = <<>> THEN Head(items)
    ELSE Head(items) \o "; " \o JoinItems(Tail(items))

\* C18: when a source holds several parts of one base problem, the slot score
\* is the sum of the parts' scores and the slot reason is the '; '-joined list
\* of the '<part>: <reason>' items of the parts in encounter order; extra-credit
\* parts go to the extra slot of the base problem.
C18_PartsSummedAndJoined ==
    Reported =>
        \A i \in DOMAIN out, b \in Bases, extra \in BOOLEAN :
            LET parts == DecidingParts(out[i].student_id, b, extra)
            IN  parts # <<>> =>
                    Slot(out[i], b, extra)
                        = [score |-> Some(SumOfParts(parts)),
                           reason |-> JoinItems(AllPartItems(parts))]

\* C18 with the reasons as the code joins them: the items of the parts whose
\* reason is not empty, in encounter order.
C18_PartsSummedReasonedJoined ==
    Reported =>
        \A i \in DOMAIN out, b \in Bases, extra \in BOOLEAN :
            LET parts == DecidingParts(out[i].student_id, b, extra)
            IN  parts # <<>> =>
                    Slot(out[i], b, extra)
                        = [score |-> Some(SumOfParts(parts)),
                           reason |-> JoinItems(ReasonedPartItems(parts))]

\* fresh 3_b then 3_a gave P3 = 12 with both reasons in that order, and the
\* store's 3_ex went to the extra slot of P3
C18_Witness ==
    /\ Reported
    /\ \E i \in DOMAIN out :
           /\ out[i].score["3"] = Some(12)
           /\ out[i].reason["3"] = "3_b: fr; 3_a: fr"
           /\ out[i].extra["3"] = Some(4)
           /\ out[i].extra_reason["3"] = "3_ex: st"

\* C19: a store entry with score -1 never contributes: a slot for which the
\* store holds only such entries, and no fresh submission, keeps its CSV value
\* or stays blank.
C19_UngradedEntriesSkipped ==
    Reported =>
        \A i \in DOMAIN out, b \in Bases, extra \in BOOLEAN :
            (/\ FreshParts(out[i].student_id, b, extra) = <<>>
             /\ StoreEntries(out[i].student_id, b, extra) # <<>>
             /\ StoreParts(out[i].student_id, b, extra) = <<>>) =>
                Slot(out[i], b, extra) = CsvSlot(out[i].student_id, b, extra)

\* the store holds P1 at -1 and 3_a at -1: P1 kept the 3 of the CSV and P3
\* stayed blank
C19_Witness ==
    /\ Reported
    /\ \E i \in DOMAIN out :
           /\ StoreEntries(out[i].student_id, "1", FALSE) # <<>>
           /\ StoreParts(out[i].student_id, "1", FALSE) = <<>>
           /\ StoreEntries(out[i].student_id, "3", FALSE) # <<>>
           /\ StoreParts(out[i].student_id, "3", FALSE) = <<>>
           /\ inp.submissions = <<>>
           /\ out[i].score["1"] = Some(3)
           /\ out[i].score["3"] = None

-----------------------------------------------------------------------------
(* SpecTotal: StudentGrade.calculate_total_score applied to a grade        *)

\* the highest score a slot holds
MaxPoints == 6

\* the values of an Optional[int] score
OptionalScores == {None} \cup {Some(n) : n \in 0..MaxPoints}

\* the grades calculate_total_score is applied to
TotalInputs ==
    {[NewStudentGrade("s1") EXCEPT
          !.score = [b \in Bases |-> IF b = "4" THEN Some(p4) ELSE optional[b]],
          !.extra = extras] :
         optional \in [{"1", "2", "3"} -> OptionalScores],
         p4 \in {0, MaxPoints},
         extras \in [Bases -> {None, Some(1)}]}

InitTotal ==
    /\ file = <<>>
    /\ lock = NoThread
    /\ submissions = <<>>
    /\ toGrade = <<>>
    /\ phase = "total"
    /\ workers = 1
    /\ sub = <<>>
    /\ preFile = <<>>
    /\ lastOp = NoOp
    /\ th = <<>>
    /\ batch = <<>>
    /\ inp \in TotalInputs
    /\ out = <<>>

\* total = grade.calculate_total_score()
ApplyTotal ==
    /\ phase = "total"
    /\ out' = [grade |-> CalculateTotalScore(inp),
               total |-> CalculateTotalScore(inp).total_score]
    /\ phase' = "totalled"
    /\ UNCHANGED <<file, lock, submissions, toGrade, workers, sub, preFile, lastOp, th,
                   batch, inp>>

NextTotal == ApplyTotal

SpecTotal == InitTotal /\ [][NextTotal]_vars

\* the three optional scores of the grade, None counted as 0
OptionalThree(grade) ==
    <<IF grade.score["1"].some THEN grade.score["1"].v ELSE 0,
      IF grade.score["2"].some THEN grade.score["2"].v ELSE 0,
      IF grade.score["3"].some THEN grade.score["3"].v ELSE 0>>

\* the total the rule gives: the top two of the three optional scores if the
\* least of them is 0, else the bottom two; plus P4; plus the four extras
ExpectedTotal(grade) ==
    LET t == OptionalThree(grade)
        least == CHOOSE x \in {t[1], t[2], t[3]} : \A y \in {t[1], t[2], t[3]} : x <= y
        most == CHOOSE x \in {t[1], t[2], t[3]} : \A y \in {t[1], t[2], t[3]} : x >= y
        all == t[1] + t[2] + t[3]
        extras == {b \in Bases : grade.extra[b].some}
        extra_total == IF extras = {} THEN 0
                       ELSE LET ExtraSum[S \in SUBSET Bases] ==
                                    IF S = {} THEN 0
                                    ELSE LET b == CHOOSE b \in S : TRUE
                                         IN  grade.extra[b].v + ExtraSum[S \ {b}]
                            IN  ExtraSum[extras]
    IN  (IF least = 0 THEN all - least ELSE all - most) + grade.score["4"].v + extra_total

-----------------------------------------------------------------------------
(* SpecCompare: test_runner.compare_output applied to two texts.  A text   *)
(* is the sequence of its characters; "\n" is the line boundary.           *)

\* the longest text compared
MaxLen == 3

\* the characters of the texts
Chars == {"a", "b", " ", "\n"}

RECURSIVE TextsUpTo(_)
\* the texts of at most n characters
TextsUpTo(n) ==
    IF n = 0 THEN {<<>>}
    ELSE TextsUpTo(n - 1) \cup {Append(t, c) : t \in TextsUpTo(n - 1), c \in Chars}

RECURSIVE Splitlines(_)
\* text.splitlines()
Splitlines(text) ==
    IF text = <<>> THEN <<>>
    ELSE IF \E i \in DOMAIN text : text[i] = "\n"
    THEN LET i == CHOOSE i \in DOMAIN text :
                      /\ text[i] = "\n"
                      /\ \A k \in 1..(i - 1) : text[k] # "\n"
         IN  <<SubSeq(text, 1, i - 1)>> \o Splitlines(SubSeq(text, i + 1, Len(text)))
    ELSE <<text>>

\* a mutated rstrip: the line is left as it is
RstripNothing(line) == line

RECURSIVE Rstrip(_)
\* line.rstrip()
Rstrip(line) ==
    IF line # <<>> /\ line[Len(line)] = " "
    THEN Rstrip(SubSeq(line, 1, Len(line) - 1))
    ELSE line

RECURSIVE PopTrailingEmpty(_)
\* while lines and not lines[-1]: lines.pop()
PopTrailingEmpty(lines) ==
    IF lines # <<>> /\ lines[Len(lines)] = <<>>
    THEN PopTrailingEmpty(SubSeq(lines, 1, Len(lines) - 1))
    ELSE lines

\* compare_output(expected, actual)
CompareOutput(expected, actual) ==
    LET expected_lines == [i \in DOMAIN Splitlines(expected) |->
                               Rstrip(Splitlines(expected)[i])]
        actual_lines == [i \in DOMAIN Splitlines(actual) |-> Rstrip(Splitlines(actual)[i])]
    IN  PopTrailingEmpty(expected_lines) = PopTrailingEmpty(actual_lines)

InitCompare ==
    /\ file = <<>>
    /\ lock = NoThread
    /\ submissions = <<>>
    /\ toGrade = <<>>
    /\ phase = "compare"
    /\ workers = 1
    /\ sub = <<>>
    /\ preFile = <<>>
    /\ lastOp = NoOp
    /\ th = <<>>
    /\ batch = <<>>
    /\ inp \in [expected : TextsUpTo(MaxLen), actual : TextsUpTo(MaxLen)]
    /\ out = <<>>

\* compare_output called on the two texts, both ways round, and on one with itself
ApplyCompare ==
    /\ phase = "compare"
    /\ out' = [forward |-> CompareOutput(inp.expected, inp.actual),
               backward |-> CompareOutput(inp.actual, inp.expected),
               self |-> CompareOutput(inp.expected, inp.expected)]
    /\ phase' = "compared"
    /\ UNCHANGED <<file, lock, submissions, toGrade, workers, sub, preFile, lastOp, th,
                   batch, inp>>

NextCompare == ApplyCompare

SpecCompare == InitCompare /\ [][NextCompare]_vars

\* the greatest element of a set of naturals, 0 if it is empty
Greatest(S) == IF S = {} THEN 0 ELSE CHOOSE x \in S : \A y \in S : x >= y

\* the lines of a text: the stretches between its line boundaries
LinesOf(text) ==
    LET breaks == {i \in DOMAIN text : text[i] = "\n"}
        start(k) == Greatest({i \in breaks : Cardinality({j \in breaks : j <= i}) = k - 1}) + 1
        stop(k) == IF k = Cardinality(breaks) + 1 THEN Len(text)
                   ELSE (CHOOSE i \in breaks : Cardinality({j \in breaks : j <= i}) = k) - 1
    IN  [k \in 1..(Cardinality(breaks) + 1) |-> SubSeq(text, start(k), stop(k))]

\* a line without its trailing blanks
RightTrimmed(line) == SubSeq(line, 1, Greatest({i \in DOMAIN line : line[i] # " "}))

\* the right-trimmed lines of a text, up to the last one that is not blank
TrimmedLines(text) ==
    LET trimmed == [k \in DOMAIN LinesOf(text) |-> RightTrimmed(LinesOf(text)[k])]
    IN  SubSeq(trimmed, 1, Greatest({k \in DOMAIN trimmed : trimmed[k] # <<>>}))

-----------------------------------------------------------------------------
(* SpecStudent: one run of the grade command with --student (main.py).     *)
(* The progress filter is not called; the store is what earlier runs left. *)

\* filter_by_student_ids
FilterByStudentIds(subs, student_ids) ==
    SelectSeq(subs, LAMBDA s : InSeq(s.student_id, student_ids))

\* the values of --student, split at the commas; s9 has no file
StudentOptions == {<<"s1">>, <<"s2">>, <<"s1", "s2">>, <<"s9">>}

\* the store before the run: absent or empty, or left by a run that saw s1
PriorStores == {<<>>, InitializeStudentProgress(<<>>, "s1", <<"P1_ex">>).file}

InitStudent ==
    /\ file \in PriorStores
    /\ lock = NoThread
    /\ submissions = <<>>
    /\ toGrade = <<>>
    /\ phase = "start"
    /\ workers = 1
    /\ sub = <<>>
    /\ preFile = <<>>
    /\ lastOp = NoOp
    /\ th = <<>>
    /\ batch = <<>>
    /\ inp = <<>>
    /\ out = <<>>

\* grade(): submissions = filter_by_student_ids(submissions, student_ids)
FilterStudent ==
    /\ phase = "scanned"
    /\ \E student_ids \in StudentOptions :
           LET filtered == FilterByStudentIds(submissions, student_ids)
           IN  /\ toGrade' = filtered
               /\ sub' = [i \in DOMAIN filtered |-> NewJob(filtered[i])]
               /\ phase' = IF filtered = <<>> THEN "exit" ELSE "grading"
    /\ preFile' = file
    /\ lastOp' = [NoOp EXCEPT !.name = "filter_by_student_ids"]
    /\ UNCHANGED <<batch, inp, out, file, lock, submissions, workers, th>>

NextStudent ==
    \/ Scan
    \/ FilterStudent
    \/ \E i \in DOMAIN sub : StageSetup(i)
    \/ \E i \in DOMAIN sub : StageCompile(i)
    \/ \E i \in DOMAIN sub : StageRewrite(i)
    \/ \E i \in DOMAIN sub : StageTest(i)
    \/ \E i \in DOMAIN sub : StageLlm(i)

SpecStudent == InitStudent /\ [][NextStudent]_vars

\* job i calls update_progress_entry in this step
UpdatesNow(i) ==
    /\ i \in DOMAIN sub
    /\ i \in DOMAIN sub'
    /\ Len(sub'[i].updates) > Len(sub[i].updates)

\* C21: in the --student mode of the grade command, each update_progress_entry
\* call made by the pipeline finds a record of that student in the store.
C21_UpdateFindsRecord ==
    [][\A i \in DOMAIN sub :
           UpdatesNow(i) => PDHas(ReadProgressLog(file), sub[i].s.student_id)]_vars

-----------------------------------------------------------------------------
(* SpecResume: runs of the grade command in the default mode, each one     *)
(* interrupted between two store operations or left to finish, and the     *)
(* command started again on the same source files.                         *)

\* the process is killed while grade_all_submissions_with_progress runs, and
\* grade() starts again: the scan finds the same files, the store file stays
Interrupt ==
    /\ phase = "grading"
    /\ phase' = "scanned"
    /\ sub' = <<>>
    /\ toGrade' = <<>>
    /\ preFile' = file
    /\ lastOp' = [NoOp EXCEPT !.name = "interrupt"]
    /\ UNCHANGED <<batch, inp, out, file, lock, submissions, workers, th>>

\* the process is killed inside filter_submissions_by_progress, after the
\* loop over the students initialised the first n of them
FilterInterrupted ==
    /\ phase = "scanned"
    /\ LET students == GroupStudents(submissions, <<>>)
       IN  \E n \in 1..(Len(students) - 1) :
               LET cat == Categorize(SubSeq(students, 1, n), submissions,
                                     [completed_students |-> <<>>,
                                      partial_students   |-> <<>>,
                                      new_students       |-> <<>>,
                                      progress_dict      |-> ReadProgressLog(file),
                                      file               |-> file])
               IN  /\ cat.file # file
                   /\ file' = cat.file
    /\ preFile' = file
    /\ lastOp' = [NoOp EXCEPT !.name = "interrupt"]
    /\ UNCHANGED <<batch, inp, out, lock, submissions, toGrade, phase, workers, sub, th>>

\* grade(): the scan, in a run without the --workers option (workers = 1)
ScanSequential ==
    /\ phase = "start"
    /\ \E d \in Discoveries(MaxSubs) : submissions' = d
    /\ phase' = "scanned"
    /\ UNCHANGED <<batch, inp, out, file, lock, toGrade, workers, sub, preFile, lastOp, th>>

NextResume ==
    \/ ScanSequential
    \/ Filter
    \/ FilterInterrupted
    \/ \E i \in DOMAIN sub : StageSetup(i)
    \/ \E i \in DOMAIN sub : StageCompile(i)
    \/ \E i \in DOMAIN sub : StageRewrite(i)
    \/ \E i \in DOMAIN sub : StageTest(i)
    \/ \E i \in DOMAIN sub : StageLlm(i)
    \/ Interrupt

SpecResume == Init /\ [][NextResume]_vars

\* the filter of the current run has returned
Filtered == phase \in {"grading", "exit"}

\* the store held a score other than -1 for the key of submission s when the
\* current run started
RecordedAtStart(s) ==
    /\ PDHas(ReadProgressLog(preFile), s.student_id)
    /\ DictHas(PDGet(ReadProgressLog(preFile), s.student_id).problems, GetProblemKey(s))
    /\ DictGet(PDGet(ReadProgressLog(preFile), s.student_id).problems,
               GetProblemKey(s)).score # Ungraded

-----------------------------------------------------------------------------
(* SpecScorer: the grade command on a directory that holds one source file *)
(* of one student, from the filter to the return of grade_submission.      *)

\* the file scan_source_codes found; parse_filename accepts P3_a_ex
ScorerFiles ==
    { NewSubmission("s1", "1_ex", "s1_P1_ex.c"),
      NewSubmission("s2", "1", "s2_P1.c"),
      NewSubmission("s3", "3_a_ex", "s3_P3_a_ex.c") }

InitScorer ==
    /\ file = <<>>
    /\ lock = NoThread
    /\ submissions \in {<<f>> : f \in ScorerFiles}
    /\ toGrade = <<>>
    /\ phase = "scanned"
    /\ workers = 1
    /\ sub = <<>>
    /\ preFile = <<>>
    /\ lastOp = NoOp
    /\ th = <<>>
    /\ batch = <<>>
    /\ inp = <<>>
    /\ out = <<>>

NextScorer ==
    \/ Filter
    \/ \E i \in DOMAIN sub : StageSetup(i)
    \/ \E i \in DOMAIN sub : StageCompile(i)
    \/ \E i \in DOMAIN sub : StageRewrite(i)
    \/ \E i \in DOMAIN sub : StageTest(i)
    \/ \E i \in DOMAIN sub : StageLlm(i)

SpecScorer == InitScorer /\ [][NextScorer]_vars

\* C23: grade_submission never raises because of the LLM scorer: whenever the
\* scorer was called, grade_submission returns and has written a progress update.
C23_ScorerNeverRaises ==
    \A i \in DOMAIN sub :
        /\ sub[i].pc # "raised"
        /\ (sub[i].llm_calls > 0 /\ sub[i].pc \notin {"llm"}) =>
               (Returned(i) /\ sub[i].updates # <<>>)

-----------------------------------------------------------------------------
(* The order of the stages of grade_submission, under SpecResume           *)

\* the positions grade_submission passes through on a job, in order
StageOrder == <<"queued", "compile", "rewrite", "test", "llm", "done">>

\* the place of a position in the order; raised stands where done does
StageIndex(pc) ==
    IF pc = "raised" THEN Len(StageOrder)
    ELSE CHOOSE n \in DOMAIN StageOrder : StageOrder[n] = pc

\* job i moves in this step
Moves(i) == i \in DOMAIN sub /\ i \in DOMAIN sub' /\ sub'[i] # sub[i]

\* C24: within one submission the stages run in the order setup, compile,
\* rewrite, run tests, LLM scoring, each one after the previous one finished;
\* after a failure in setup or compile no later stage does any work.
C24_StagesInOrder ==
    /\ [][\A i \in DOMAIN sub :
              Moves(i) =>
                  /\ \/ StageIndex(sub'[i].pc) = StageIndex(sub[i].pc) + 1
                     \/ /\ sub[i].pc = "compile"
                        /\ sub[i].s.compile_status = "failed"
                            \/ sub'[i].s.compile_status = "failed"
                        /\ sub'[i].pc = "done"
                  /\ sub[i].s.compile_status = "failed" =>
                         /\ sub'[i].s = sub[i].s
                         /\ sub'[i].updates = sub[i].updates
                         /\ sub'[i].tests_ran = sub[i].tests_ran
                         /\ sub'[i].llm_calls = sub[i].llm_calls
                         /\ file' = file
                         /\ sub'[i].pc = "done"]_vars
    /\ [](\A i \in DOMAIN sub :
              /\ sub[i].s.executable_path # "none" => StageIndex(sub[i].pc) >= 2
              /\ sub[i].s.compile_status = "success" => StageIndex(sub[i].pc) >= 3
              /\ sub[i].s.executable_path = "rewrite" => StageIndex(sub[i].pc) >= 4
              /\ (sub[i].tests_ran > 0 \/ sub[i].s.test_results # <<>>) =>
                     StageIndex(sub[i].pc) >= 5
              /\ sub[i].llm_calls > 0 => StageIndex(sub[i].pc) >= 6)

\* a submission failed in setup, compile_original was called on it and
\* grade_submission returned; another one reached the LLM scorer
C24_Witness ==
    /\ \E i \in DOMAIN sub :
           /\ Returned(i)
           /\ sub[i].s.compile_error = "copy failed"
           /\ sub[i].s.executable_path = "none"
    /\ \E i \in DOMAIN sub : Returned(i) /\ sub[i].llm_calls = 1

-----------------------------------------------------------------------------
(* SpecRewrite: rewrite_with_llm on a submission that compiled, with the   *)
(* paths of the files it names.  A path is a stem and a suffix.            *)

\* Path.with_suffix(suffix)
WithSuffix(path, suffix) == [path EXCEPT !.suffix = suffix]

\* the values of os.name
OsNames == {"nt", "posix"}

\* utils.file.get_executable_path
GetExecutablePath(os_name, output_path) ==
    IF os_name = "nt" THEN WithSuffix(output_path, ".exe") ELSE output_path

\* compile_code: output_file, the binary the compiler writes for a source file
CompileOutput(os_name, source_file) ==
    GetExecutablePath(os_name, WithSuffix(source_file, ""))

\* setup_workspace: submission.executable_path
SetupExecutable(os_name, temp_source_file) ==
    IF os_name = "nt" THEN WithSuffix(WithSuffix(temp_source_file, ""), ".exe")
    ELSE WithSuffix(temp_source_file, "")

\* rewrite_code_with_retry: rewritten_file
RewrittenFile(original_file) == [original_file EXCEPT !.stem = @ \o "_rewrite"]

\* rewrite_with_llm: the path it leaves in submission.executable_path
RewriteExecutable(os_name, temp_source_file, r) ==
    IF r.job.s.executable_path = "rewrite"
    THEN GetExecutablePath(os_name, RewrittenFile(temp_source_file))
    ELSE SetupExecutable(os_name, temp_source_file)

\* the job of a submission after setup_workspace and compile_original succeeded
CompiledJob(s) ==
    CompileOriginal(SetupWorkspace(NewJob(s), <<>>, TRUE).job, <<>>, TRUE).job

\* tmp/<student>/P<n>/<file_name>
TempSourceFiles ==
    { [stem |-> "s2_P1", suffix |-> ".c", s |-> NewSubmission("s2", "1", "s2_P1.c")],
      [stem |-> "s2_P1", suffix |-> ".cpp", s |-> NewSubmission("s2", "1", "s2_P1.cpp")] }

RewriteInputs ==
    [os_name : OsNames,
     temp_source_file : TempSourceFiles,
     read_ok : BOOLEAN,
     attempts : [1..RewriteMaxRetries -> RewriteAttempts],
     rewrite_compile_success : BOOLEAN]

InitRewrite ==
    /\ file = <<>>
    /\ lock = NoThread
    /\ submissions = <<>>
    /\ toGrade = <<>>
    /\ phase = "rewrite"
    /\ workers = 1
    /\ sub = <<>>
    /\ preFile = <<>>
    /\ lastOp = NoOp
    /\ th = <<>>
    /\ batch = <<>>
    /\ inp \in RewriteInputs
    /\ out = <<>>

\* sub = rewrite_with_llm(sub)
ApplyRewrite ==
    /\ phase = "rewrite"
    /\ LET before == CompiledJob(inp.temp_source_file.s)
           source == [stem |-> inp.temp_source_file.stem,
                      suffix |-> inp.temp_source_file.suffix]
           r == RewriteWithLlm(before, file,
                               RewriteCodeWithRetry(inp.read_ok, inp.attempts),
                               inp.rewrite_compile_success)
       IN  out' = [before |-> before,
                   job |-> r.job,
                   file |-> r.file,
                   executable_path |-> RewriteExecutable(inp.os_name, source, r)]
    /\ phase' = "rewritten"
    /\ UNCHANGED <<file, lock, submissions, toGrade, workers, sub, preFile, lastOp, th,
                   batch, inp>>

NextRewrite == ApplyRewrite

SpecRewrite == InitRewrite /\ [][NextRewrite]_vars

\* the source file of the inputs, as a path
SourcePath == [stem |-> inp.temp_source_file.stem, suffix |-> inp.temp_source_file.suffix]

\* the source was read, and one of the attempts kept the line count
SomeAttemptMatched ==
    inp.read_ok /\ \E a \in 1..RewriteMaxRetries : inp.attempts[a] = "match"

\* C25: after the rewrite stage the executable used for testing is the rewritten
\* binary iff some attempt (of at most 3) kept the line count and the rewritten
\* code compiled; otherwise it is still the original binary; and the stage
\* changes neither compile_status nor the score and writes nothing to the store.
C25_RewrittenBinaryIffMatchedAndCompiled ==
    phase = "rewritten" =>
        /\ IF SomeAttemptMatched /\ inp.rewrite_compile_success
           THEN out.executable_path = CompileOutput(inp.os_name, RewrittenFile(SourcePath))
           ELSE out.executable_path = CompileOutput(inp.os_name, SourcePath)
        /\ out.job.s.compile_status = "success"
        /\ out.job.s.final_score = out.before.s.final_score
        /\ out.job.updates = <<>>
        /\ out.file = file

-----------------------------------------------------------------------------
(* SpecTests: run_all_tests on a submission that compiled                  *)

\* what one run of the binary on a fixture can end in, the spawn error included
RunOutcomes == TestOutcomes \cup {"error"}

\* the problems of the submissions tested: P2 has no fixture folder
TestedProblems == {"1", "1_ex", "2", "4"}

TestInputs ==
    UNION {[s : {CompiledJob(NewSubmission("s1", p, "s1_P" \o p \o ".c")).s},
            exe_exists : BOOLEAN,
            outcomes : [DOMAIN TestCases(p) -> RunOutcomes]] : p \in TestedProblems}

InitTests ==
    /\ file = <<>>
    /\ lock = NoThread
    /\ submissions = <<>>
    /\ toGrade = <<>>
    /\ phase = "test"
    /\ workers = 1
    /\ sub = <<>>
    /\ preFile = <<>>
    /\ lastOp = NoOp
    /\ th = <<>>
    /\ batch = <<>>
    /\ inp \in TestInputs
    /\ out = <<>>

\* all_passed = run_all_tests(submission, test_output_dir)
ApplyTests ==
    /\ phase = "test"
    /\ out' = RunAllTests(inp.s, inp.exe_exists, inp.outcomes)
    /\ phase' = "tested"
    /\ UNCHANGED <<file, lock, submissions, toGrade, workers, sub, preFile, lastOp, th,
                   batch, inp>>

NextTests == ApplyTests

SpecTests == InitTests /\ [][NextTests]_vars

\* the fixtures of the submission tested
Fixtures == TestCases(inp.s.problem_num)

\* one result per fixture, in fixture order; a run that timed out or raised is
\* a failed result with an error text; the counts are those of the results
OneResultPerFixture ==
    /\ Len(out.s.test_results) = Len(Fixtures)
    /\ out.ran = Len(Fixtures)
    /\ \A n \in DOMAIN Fixtures :
           /\ out.s.test_results[n].test_folder = Fixtures[n]
           /\ out.s.test_results[n].passed <=> inp.outcomes[n] = "pass"
           /\ inp.outcomes[n] \in {"timeout", "error"} =>
                  (~out.s.test_results[n].passed /\ out.s.test_results[n].error # "")
    /\ out.s.total_tests = Len(Fixtures)
    /\ out.s.passed_tests = Cardinality({n \in DOMAIN Fixtures : inp.outcomes[n] = "pass"})

\* C26 as stated: run_all_tests produces exactly one result per fixture, in
\* fixture order, whatever happens in each run; a timeout or an execution error
\* is a failed result with a non-empty error and does not stop the remaining
\* fixtures; total_tests is the number of fixtures and passed_tests the number
\* of passed results.
C26_OneResultPerFixture == phase = "tested" => OneResultPerFixture

\* C26, amended: the same, when the executable exists on entry to run_all_tests.
C26_OneResultPerFixtureWhenExecutable ==
    (phase = "tested" /\ inp.exe_exists) => OneResultPerFixture

\* three fixtures: the first run times out, the second raises, the third passes
C26_Witness ==
    /\ phase = "tested"
    /\ inp.exe_exists
    /\ Len(Fixtures) = 3
    /\ inp.outcomes[1] = "timeout"
    /\ inp.outcomes[2] = "error"
    /\ out.s.test_results[3].passed
    /\ out.s.passed_tests = 1

-----------------------------------------------------------------------------
(* The submission without fixtures, under Spec                             *)

\* run_all_tests found no fixture for the problem of job i
NoFixtureFailure(i) ==
    /\ sub[i].s.compile_status = "success"
    /\ TestCases(sub[i].s.problem_num) = <<>>
    /\ sub[i].s.score_reason = "no test case"

\* C27: when a compiled submission has no fixture for its problem_num, the test
\* stage reports total_tests = 0, passed_tests = 0, final_score = 0 and the
\* mismatch diagnostic; the submission ends with this outcome, and this outcome
\* is what is recorded for it in the store.
C27_NoFixtureFailureRecorded ==
    \A i \in DOMAIN sub :
        (Returned(i) /\ NoFixtureFailure(i)) =>
            /\ sub[i].s.total_tests = 0
            /\ sub[i].s.passed_tests = 0
            /\ sub[i].s.final_score = 0
            /\ sub[i].updates # <<>>
            /\ StoredResult(file, i) = ProblemResult(0, sub[i].s.score_reason)

-----------------------------------------------------------------------------
(* SpecCrash: the threads of SpecStore, and the process killed at any      *)
(* point.  The file keeps what had reached it: between open(log_path, 'w') *)
(* and the close of the with block that is some prefix of the lines        *)
(* written, the last of them possibly cut.                                 *)

\* what the file can hold when the process dies while thread t rewrites it
CrashFiles(t) ==
    LET lines == RewriteAll(th[t].local)
    IN  {SubSeq(lines, 1, k) : k \in 0..Len(lines)}
        \cup {Append(SubSeq(lines, 1, k), MalformedLine) : k \in 0..(Len(lines) - 1)}

\* the process is killed
Crash ==
    /\ phase = "threads"
    /\ IF \E t \in Threads : th[t].pc = "flush"
       THEN \E t \in Threads : th[t].pc = "flush" /\ file' \in CrashFiles(t)
       ELSE file' = file
    /\ phase' = "crashed"
    /\ lock' = NoThread
    /\ th' = [t \in Threads |-> [th[t] EXCEPT !.pc = "dead"]]
    /\ UNCHANGED <<batch, inp, out, submissions, toGrade, workers, sub, preFile, lastOp>>

NextCrash == NextStore \/ Crash

SpecCrash == InitStore /\ [][NextCrash]_vars

\* C28: if the process crashes at any point, between store operations or in
\* the middle of the rewrite of update_progress_entry, the progress file holds
\* no half-written line and still holds a record of every student.
C28_CrashKeepsRecords ==
    phase = "crashed" =>
        /\ \A i \in DOMAIN file : Parses(file[i])
        /\ \A sid \in Students : PDHas(ReadProgressLog(file), sid)

-----------------------------------------------------------------------------
(* SpecRead: read_progress_log on a file of a few lines                    *)

\* the longest file read
MaxLines == 3

\* the lines of the files read: records of s1 and s2, text that is not a
\* record, and bytes that are not text
FileLines ==
    { ModelDumpJson(InitializeStudentProgress(<<>>, "s1", <<"P1_ex">>).progress),
      ModelDumpJson(UpdateProblemScore(
                        InitializeStudentProgress(<<>>, "s1", <<"P1_ex">>).progress,
                        "P1_ex", 5, "all passed")),
      ModelDumpJson(InitializeStudentProgress(<<>>, "s2", <<"P1">>).progress),
      MalformedLine,
      UndecodableLine }

RECURSIVE FilesUpTo(_)
\* the files of at most n lines
FilesUpTo(n) ==
    IF n = 0 THEN {<<>>}
    ELSE FilesUpTo(n - 1) \cup {Append(f, l) : f \in FilesUpTo(n - 1), l \in FileLines}

InitRead ==
    /\ file \in FilesUpTo(MaxLines)
    /\ lock = NoThread
    /\ submissions = <<>>
    /\ toGrade = <<>>
    /\ phase = "read"
    /\ workers = 1
    /\ sub = <<>>
    /\ preFile = <<>>
    /\ lastOp = NoOp
    /\ th = <<>>
    /\ batch = <<>>
    /\ inp = <<>>
    /\ out = <<>>

\* progress_dict = read_progress_log()
ApplyRead ==
    /\ phase = "read"
    /\ out' = ReadProgressLog(file)
    /\ phase' = "read_done"
    /\ lastOp' = [NoOp EXCEPT !.name = "read"]
    /\ UNCHANGED <<file, lock, submissions, toGrade, workers, sub, preFile, th, batch, inp>>

NextRead == ApplyRead

SpecRead == InitRead /\ [][NextRead]_vars

\* line i of the file is a record
WellFormedLine(i) == file[i].wellformed /\ file[i].decodable

\* C29: read_progress_log scans every line of the file: a malformed line is
\* skipped without ending the scan, so the student of every well-formed line is
\* in the result; of several lines of one student the result holds the last.
C29_ScanSkipsMalformed ==
    phase = "read_done" =>
        \A i \in DOMAIN file :
            WellFormedLine(i) =>
                /\ PDHas(out, file[i].id)
                /\ (\A k \in (i + 1)..Len(file) :
                        ~(WellFormedLine(k) /\ file[k].id = file[i].id)) =>
                       PDGet(out, file[i].id) = ModelValidate(file[i])

-----------------------------------------------------------------------------
(* SpecCorrupt: the store and the filter, one call after another, on a     *)
(* file in which one line is corrupt                                       *)

\* the records of a store after a run: s1 graded, s2 graded in part
RecordedLines ==
    << ModelDumpJson(UpdateProblemScore(
                         InitializeStudentProgress(<<>>, "s1", <<"P1_ex">>).progress,
                         "P1_ex", 5, "all passed")),
       ModelDumpJson(UpdateProblemScore(
                         InitializeStudentProgress(<<>>, "s2", <<"P1", "P2">>).progress,
                         "P1", 0, "compile failed")) >>

\* the sequence with x put in before place n
InsertAt(q, n, x) == SubSeq(q, 1, n - 1) \o <<x>> \o SubSeq(q, n, Len(q))

\* the stores with one corrupt line among the records
CorruptStores ==
    {InsertAt(RecordedLines, n, l) :
        n \in 1..(Len(RecordedLines) + 1), l \in {MalformedLine, UndecodableLine}}

InitCorrupt ==
    /\ file \in CorruptStores
    /\ lock = NoThread
    /\ submissions = <<>>
    /\ toGrade = <<>>
    /\ phase = "ops"
    /\ workers = 1
    /\ sub = <<>>
    /\ preFile = <<>>
    /\ lastOp = NoOp
    /\ th = <<>>
    /\ batch = <<>>
    /\ inp = <<>>
    /\ out = <<>>

\* the calls stop once the store holds MaxStoreLines lines
MaxStoreLines == 5

UpdateCorrupt == Len(file) < MaxStoreLines /\ OpUpdate

FilterCorrupt == Len(file) < MaxStoreLines /\ OpFilter

NextCorrupt == UpdateCorrupt \/ FilterCorrupt

SpecCorrupt == InitCorrupt /\ [][NextCorrupt]_vars

\* what the record lines of the file say, the corrupt lines left aside
Recorded(f) == ParseLines(SelectSeq(f, LAMBDA l : Decodes(l)), <<>>)

\* the record lines of f hold a score other than -1 for the key of the student
RecordedScore(f, sid, key) ==
    /\ PDHas(Recorded(f), sid)
    /\ DictHas(PDGet(Recorded(f), sid).problems, key)
    /\ DictGet(PDGet(Recorded(f), sid).problems, key).score # Ungraded

\* this step is update_progress_entry on the key of the student
UpdatesKey(sid, key) ==
    /\ lastOp'.name = "update"
    /\ lastOp'.student_id = sid
    /\ lastOp'.problem_key = key

\* C30: with one corrupt line in the file, no filter, append or update loses
\* the recorded score of a student: after the operation read_progress_log still
\* returns every score the file recorded before it, but the one the operation
\* itself overwrites.
C30_CorruptLineLosesNothing ==
    [][\A sid \in Students :
           \A key \in StudentKeys(sid) :
               (RecordedScore(file, sid, key) /\ ~UpdatesKey(sid, key)) =>
                   /\ PDHas(ReadProgressLog(file'), sid)
                   /\ DictHas(PDGet(ReadProgressLog(file'), sid).problems, key)
                   /\ DictGet(PDGet(ReadProgressLog(file'), sid).problems, key)
                          = DictGet(PDGet(Recorded(file), sid).problems, key)]_vars

-----------------------------------------------------------------------------
(* utils/key_manager.py and utils/llm.py: the key pool and BaseLLM.invoke  *)
(* SpecKeys: threads calling invoke; inp is google_key_manager             *)

\* invoke is called at most this many times in the run
MaxCalls == 3
\* the collaborator raises an error whose text holds '429' at most this many
\* times in the run
MaxRateLimited == 2

RECURSIVE FilterNone(_)
\* list(filter(None, keys))
FilterNone(keys) ==
    IF keys = <<>> THEN <<>>
    ELSE IF Head(keys) = "" THEN FilterNone(Tail(keys))
    ELSE <<Head(keys)>> \o FilterNone(Tail(keys))

\* set(q)
SetOf(q) == {q[i] : i \in DOMAIN q}

\* ApiKeyManager(keys): list(set(...)) comes in any order
ApiKeyManager(keys) ==
    LET configured == FilterNone(keys)
    IN  {[keys |-> configured, available_keys |-> q] :
            q \in {r \in InjSeqs(SetOf(configured), Len(configured)) :
                       SetOf(r) = SetOf(configured)}}

\* a peek that leaves the key in the pool
GetKeepingKey(m) == [key |-> Head(m.available_keys), manager |-> m]

\* ApiKeyManager.get, once available_keys is not empty: available_keys.pop(0)
PopKey(m) ==
    [key |-> Head(m.available_keys),
     manager |-> [m EXCEPT !.available_keys = Tail(m.available_keys)]]

\* ApiKeyManager.release(key), the list after the call
ReleaseKey(m, key) ==
    IF ~InSeq(key, m.keys) THEN m
    ELSE IF InSeq(key, m.available_keys) THEN m
    ELSE [m EXCEPT !.available_keys = Append(m.available_keys, key)]

\* a release only when invoke_once returns
ExitOnReturnOnly(m, key, o) == IF o.kind = "ok" THEN ReleaseKey(m, key) ELSE m

\* the finally of invoke_once: the release happens on return and on raise
InvokeOnceExit(m, key, o) == ReleaseKey(m, key)

\* what chain.invoke and _process_response do: an answer, a rate-limit error
\* (its text holds '429'), or another error, whose text may hold '429' too
\* (parse_json_response puts the position of the JSON error in its message)
Outcomes ==
    {[kind |-> "ok", text429 |-> FALSE],
     [kind |-> "rate_limit", text429 |-> TRUE],
     [kind |-> "error", text429 |-> FALSE],
     [kind |-> "error", text429 |-> TRUE]}

NoOutcome == [kind |-> "none", text429 |-> FALSE]

\* GOOGLE_API_KEY.split(',')
KeyConfigs == {<<"k1">>, <<"k1", "k2">>, <<"k1", "", "k1">>}

IdleCaller ==
    [pc |-> "idle", api_key |-> "", outcome |-> NoOutcome, waited |-> FALSE]

\* the calls of invoke and the errors with '429' so far
NoCalls == [calls |-> 0, limited |-> 0]

InitKeys ==
    /\ file = <<>>
    /\ lock = NoThread
    /\ submissions = <<>>
    /\ toGrade = <<>>
    /\ phase = "keys"
    /\ workers = NumThreads
    /\ sub = <<>>
    /\ preFile = <<>>
    /\ lastOp = NoOp
    /\ th = [t \in Threads |-> IdleCaller]
    /\ batch = NoCalls
    /\ inp \in UNION {ApiKeyManager(keys) : keys \in KeyConfigs}
    /\ out = <<>>

\* model.invoke(...) is called
InvokeStart(t) ==
    /\ phase = "keys"
    /\ th[t].pc = "idle"
    /\ batch.calls < MaxCalls
    /\ batch' = [batch EXCEPT !.calls = @ + 1]
    /\ th' = [th EXCEPT ![t] = [@ EXCEPT !.pc = "get"]]
    /\ UNCHANGED <<file, lock, submissions, toGrade, phase, workers, sub, preFile,
                   lastOp, inp, out>>

\* ApiKeyManager.get under the condition's lock: on entry and after each wake-up
\* the loop tests available_keys, waits when it is empty, pops otherwise
GetKey(t) ==
    /\ phase = "keys"
    /\ th[t].pc \in {"get", "notified"}
    /\ IF inp.available_keys = <<>>
       THEN /\ th' = [th EXCEPT ![t] = [@ EXCEPT !.pc = "wait", !.waited = TRUE]]
            /\ inp' = inp
       ELSE /\ th' = [th EXCEPT ![t] = [@ EXCEPT !.pc = "call",
                                                !.api_key = PopKey(inp).key]]
            /\ inp' = PopKey(inp).manager
    /\ UNCHANGED <<file, lock, submissions, toGrade, phase, workers, sub, preFile,
                   lastOp, batch, out>>

\* the body of the try of invoke_once: the chain answers or raises
InvokeChain(t) ==
    /\ phase = "keys"
    /\ th[t].pc = "call"
    /\ \E o \in Outcomes :
        /\ o.text429 => batch.limited < MaxRateLimited
        /\ batch' = [batch EXCEPT !.limited = IF o.text429 THEN @ + 1 ELSE @]
        /\ th' = [th EXCEPT ![t] = [@ EXCEPT !.pc = "release", !.outcome = o]]
    /\ UNCHANGED <<file, lock, submissions, toGrade, phase, workers, sub, preFile,
                   lastOp, inp, out>>

\* where invoke goes after invoke_once ended with outcome o
AfterOnce(o) ==
    IF o.kind = "ok" THEN "returned"
    ELSE IF o.text429 THEN "get"
    ELSE "raised"

\* the threads lock.notify() can wake
Waiters == {w \in Threads : th[w].pc = "wait"}

\* the finally of invoke_once and the except of invoke: the key goes back, one
\* waiter is notified when the key was appended, and invoke returns, raises or
\* goes round its loop
InvokeOnceEnd(t) ==
    /\ phase = "keys"
    /\ th[t].pc = "release"
    /\ inp' = InvokeOnceExit(inp, th[t].api_key, th[t].outcome)
    /\ \E w \in IF inp' # inp /\ Waiters # {} THEN Waiters ELSE {t} :
        th' = [u \in Threads |->
                 IF u = t
                 THEN [th[t] EXCEPT !.pc = AfterOnce(th[t].outcome),
                                    !.api_key = ""]
                 ELSE IF u = w THEN [th[u] EXCEPT !.pc = "notified"]
                 ELSE th[u]]
    /\ UNCHANGED <<file, lock, submissions, toGrade, phase, workers, sub, preFile,
                   lastOp, batch, out>>

\* the caller of invoke goes on
InvokeDone(t) ==
    /\ phase = "keys"
    /\ th[t].pc \in {"returned", "raised"}
    /\ th' = [th EXCEPT ![t] = IdleCaller]
    /\ UNCHANGED <<file, lock, submissions, toGrade, phase, workers, sub, preFile,
                   lastOp, batch, inp, out>>

CallerStep(t) ==
    InvokeStart(t) \/ GetKey(t) \/ InvokeChain(t) \/ InvokeOnceEnd(t) \/ InvokeDone(t)

NextKeys == \E t \in Threads : CallerStep(t)

SpecKeys == InitKeys /\ [][NextKeys]_vars

\* every thread that can take a step takes one in the end
SpecKeysFair == SpecKeys /\ \A t \in Threads : WF_vars(CallerStep(t))

-----------------------------------------------------------------------------
(* Claims about the key pool, under SpecKeysFair                           *)

\* thread t is between a get that returned key and the release of that key
HoldsKey(t, key) == th[t].pc \in {"call", "release"} /\ th[t].api_key = key

\* no key is with two callers, or with a caller and in the pool
ExclusiveCheckout ==
    \A key \in SetOf(inp.keys) :
        /\ \A t, u \in Threads : (HoldsKey(t, key) /\ HoldsKey(u, key)) => t = u
        /\ \A t \in Threads : HoldsKey(t, key) => ~InSeq(key, inp.available_keys)

\* available_keys holds configured keys only, each at most once
PoolWellFormed ==
    /\ SetOf(inp.available_keys) \subseteq SetOf(inp.keys)
    /\ \A i, j \in DOMAIN inp.available_keys :
           inp.available_keys[i] = inp.available_keys[j] => i = j

-----------------------------------------------------------------------------
(* Claims about BaseLLM.invoke, under SpecKeys                             *)

\* thread t is in a later round of the loop of invoke
Retrying(t) ==
    th[t].pc \in {"get", "wait", "notified", "call"} /\ th[t].outcome # NoOutcome

\* C32: invoke never raises a rate-limit error to its caller, goes round its
\* loop again after a rate-limit error only (any other error is raised at once),
\* and returns as soon as one attempt answers.
C32_OnlyRateLimitRetried ==
    \A t \in Threads :
        /\ th[t].pc = "raised" => th[t].outcome.kind = "error"
        /\ th[t].pc = "returned" => th[t].outcome.kind = "ok"
        /\ Retrying(t) => th[t].outcome.kind = "rate_limit"

-----------------------------------------------------------------------------
(* Claims about the keys of invoke_once, under SpecKeysFair                *)

\* the threads between a get and its release
Holders == {t \in Threads : th[t].pc \in {"call", "release"}}

\* every configured key is in the pool or with a thread inside invoke_once
KeysConserved ==
    /\ Len(inp.available_keys) + Cardinality(Holders) = Cardinality(SetOf(inp.keys))
    /\ SetOf(inp.available_keys) \cup {th[t].api_key : t \in Holders} = SetOf(inp.keys)

\* C37: every key invoke_once took is back in the pool when invoke_once has
\* ended, by return or by raise, rate-limit errors that are retried included: no
\* key is ever missing from both the pool and the running calls, and a thread
\* that waits in get has its call ended in the end.
C37_KeysComeBack ==
    /\ []KeysConserved
    /\ \A t \in Threads : (th[t].pc = "wait") ~> (th[t].pc \in {"returned", "raised"})

\* a call has raised after a rate-limit error in the run, no call is running and
\* the pool is full
C37_Witness ==
    /\ \E t \in Threads : th[t].pc = "raised"
    /\ batch.limited > 0
    /\ Holders = {}
    /\ SetOf(inp.available_keys) = SetOf(inp.keys)

-----------------------------------------------------------------------------
(* test_runner.py: TestCaseManager.get_instance                            *)
(* SpecCache: the worker threads of one run and the singleton; inp holds   *)
(* TestCaseManager._instance                                               *)

\* who starts the workers: the grade command, which calls get_instance first,
\* or grade_all_submissions, which does not
CacheEntries == {"grade", "grade_all_submissions"}

\* _instance = None
NoInstance == 0

IdleWorker == [pc |-> "idle", built |-> NoInstance, seen |-> NoInstance]

NewRun(entry, w, n) ==
    [entry |-> entry, workers |-> w, pending |-> n, instance |-> NoInstance,
     constructed |-> 0]

InitCache ==
    /\ file = <<>>
    /\ lock = NoThread
    /\ submissions = <<>>
    /\ toGrade = <<>>
    /\ phase = "cache_start"
    /\ workers = 1
    /\ sub = <<>>
    /\ preFile = <<>>
    /\ lastOp = NoOp
    /\ th = <<>>
    /\ batch = <<>>
    /\ inp \in {NewRun(entry, w, n) :
                    entry \in CacheEntries, w \in 1..MaxWorkers, n \in 1..MaxBatch}
    /\ out = <<>>

\* grade: TestCaseManager.get_instance() in the main thread, then the pool;
\* grade_all_submissions: the pool at once
StartWorkers ==
    /\ phase = "cache_start"
    /\ phase' = "cache_run"
    /\ inp' = IF inp.entry = "grade"
              THEN [inp EXCEPT !.instance = 1, !.constructed = 1]
              ELSE inp
    /\ th' = [t \in 1..inp.workers |-> IdleWorker]
    /\ UNCHANGED <<file, lock, submissions, toGrade, workers, sub, preFile, lastOp,
                   batch, out>>

\* a worker takes the next submission; run_all_tests reaches get_instance when
\* the executable exists
TakeSubmission(t) ==
    /\ phase = "cache_run"
    /\ th[t].pc = "idle"
    /\ inp.pending > 0
    /\ inp' = [inp EXCEPT !.pending = @ - 1]
    /\ \E reaches \in BOOLEAN :
        th' = [th EXCEPT ![t] = [@ EXCEPT !.pc = IF reaches THEN "check" ELSE "idle"]]
    /\ UNCHANGED <<file, lock, submissions, toGrade, phase, workers, sub, preFile,
                   lastOp, batch, out>>

\* if cls._instance is None
CheckInstance(t) ==
    /\ phase = "cache_run"
    /\ th[t].pc = "check"
    /\ th' = [th EXCEPT ![t] = [@ EXCEPT !.pc = IF inp.instance = NoInstance
                                               THEN "construct" ELSE "return"]]
    /\ UNCHANGED <<file, lock, submissions, toGrade, phase, workers, sub, preFile,
                   lastOp, batch, inp, out>>

\* cls(): __init__ scans the folders and loads the fixtures
Construct(t) ==
    /\ phase = "cache_run"
    /\ th[t].pc = "construct"
    /\ inp' = [inp EXCEPT !.constructed = @ + 1]
    /\ th' = [th EXCEPT ![t] = [@ EXCEPT !.pc = "assign", !.built = inp.constructed + 1]]
    /\ UNCHANGED <<file, lock, submissions, toGrade, phase, workers, sub, preFile,
                   lastOp, batch, out>>

\* cls._instance = ...
AssignInstance(t) ==
    /\ phase = "cache_run"
    /\ th[t].pc = "assign"
    /\ inp' = [inp EXCEPT !.instance = th[t].built]
    /\ th' = [th EXCEPT ![t] = [@ EXCEPT !.pc = "return"]]
    /\ UNCHANGED <<file, lock, submissions, toGrade, phase, workers, sub, preFile,
                   lastOp, batch, out>>

\* return cls._instance, and the tests of the submission run on it
ReturnInstance(t) ==
    /\ phase = "cache_run"
    /\ th[t].pc = "return"
    /\ th' = [th EXCEPT ![t] = [@ EXCEPT !.pc = "idle", !.seen = inp.instance]]
    /\ UNCHANGED <<file, lock, submissions, toGrade, phase, workers, sub, preFile,
                   lastOp, batch, inp, out>>

NextCache ==
    \/ StartWorkers
    \/ \E t \in DOMAIN th : TakeSubmission(t)
    \/ \E t \in DOMAIN th : CheckInstance(t)
    \/ \E t \in DOMAIN th : Construct(t)
    \/ \E t \in DOMAIN th : AssignInstance(t)
    \/ \E t \in DOMAIN th : ReturnInstance(t)

SpecCache == InitCache /\ [][NextCache]_vars

-----------------------------------------------------------------------------
(* Claims about the fixture cache, under SpecCache                         *)

\* the threads inside TestCaseManager()
Constructing == {t \in DOMAIN th : th[t].pc = "construct"}

\* C33: the fixture cache is constructed once, before any worker starts
\* grading, and stays the same afterwards: with more than one worker no two
\* threads construct it, no worker is the one that builds it, and every worker
\* gets the one instance.
C33_CacheBuiltOnce ==
    (phase = "cache_run" /\ inp.workers > 1) =>
        /\ inp.constructed <= 1
        /\ Constructing = {}
        /\ \A t \in DOMAIN th : th[t].seen \in {NoInstance, 1}

-----------------------------------------------------------------------------
(* Claims about the fields of a graded submission, under SpecScorer        *)

\* grade_submission has returned or raised on job i
Terminal(i) == sub[i].pc \in {"done", "raised"}

\* tests or LLM scoring are about to run, or have run, on job i
TestsOrScoring(i) ==
    sub[i].pc \in {"test", "llm"} \/ sub[i].tests_ran > 0 \/ sub[i].llm_calls > 0

-----------------------------------------------------------------------------
(* Claims about what the store keeps, under SpecStoreOps                   *)

\* the problem keys of the record of sid in progress_dict d
KeysOf(d, sid) ==
    IF PDHas(d, sid)
    THEN {PDGet(d, sid).problems[k].key : k \in DOMAIN PDGet(d, sid).problems}
    ELSE {}

\* one record per student and one result per key in what read_progress_log returns
OneResultPerKey ==
    /\ \A i, j \in DOMAIN Stored : Stored[i].student_id = Stored[j].student_id => i = j
    /\ \A i \in DOMAIN Stored :
           \A k, l \in DOMAIN Stored[i].problems :
               Stored[i].problems[k].key = Stored[i].problems[l].key => k = l

\* the step keeps every student, every key of every student, and, when it is
\* the filter, every score other than -1
KeepsRecords ==
    \A sid \in Ids(Stored) :
        /\ sid \in Ids(ReadProgressLog(file'))
        /\ KeysOf(Stored, sid) \subseteq KeysOf(ReadProgressLog(file'), sid)
        /\ lastOp'.name = "filter" =>
               \A key \in KeysOf(Stored, sid) :
                   DictGet(PDGet(Stored, sid).problems, key).score # Ungraded =>
                       DictGet(PDGet(ReadProgressLog(file'), sid).problems, key)
                           = DictGet(PDGet(Stored, sid).problems, key)

\* C35: over the filter, append and update operations no record leaves the
\* store and the store read back holds one result per (student, problem key):
\* the students and the keys of each student never shrink, and a score other
\* than -1 is not set back to -1 by the initialisation of a later run.
C35_RecordsNeverShrink == []OneResultPerKey /\ [][KeepsRecords]_vars

\* the filter has run on the files of a student who has a score other than -1
C35_Witness ==
    /\ lastOp.name = "filter"
    /\ \E i \in DOMAIN submissions :
           /\ PDHas(StoredBefore, submissions[i].student_id)
           /\ \E k \in DOMAIN PDGet(StoredBefore, submissions[i].student_id).problems :
                  PDGet(StoredBefore, submissions[i].student_id).problems[k].result.score
                      # Ungraded

-----------------------------------------------------------------------------
(* Claims about the frame of update_progress_entry, under SpecStoreOps     *)

\* the last call was update_progress_entry(S, K, ...): what is outside (S, K)
\* reads as before the call
UpdateFrame ==
    LET S == lastOp.student_id
        K == lastOp.problem_key
    IN  /\ \A sid \in Ids(StoredBefore) \ {S} :
               /\ PDHas(Stored, sid)
               /\ PDGet(Stored, sid) = PDGet(StoredBefore, sid)
        /\ Ids(Stored) = Ids(StoredBefore)
        /\ PDHas(StoredBefore, S) =>
               /\ KeysOf(Stored, S) = KeysOf(StoredBefore, S) \cup {K}
               /\ \A key \in KeysOf(StoredBefore, S) \ {K} :
                      DictGet(PDGet(Stored, S).problems, key)
                          = DictGet(PDGet(StoredBefore, S).problems, key)
        /\ ~PDHas(StoredBefore, S) => file = preFile

\* C36: update_progress_entry(S, K, score, reason) changes only the entry of
\* student S for key K and the completed flag of S: the records of the other
\* students and the other keys of S read as before, and when S has no record
\* the file is left as it was.
C36_UpdateFrame == lastOp.name = "update" => UpdateFrame

\* an update has changed one key of a student who has another key, while
\* another student has a record
C36_Witness ==
    /\ lastOp.name = "update"
    /\ file # preFile
    /\ KeysOf(StoredBefore, lastOp.student_id) \ {lastOp.problem_key} # {}
    /\ Ids(StoredBefore) \ {lastOp.student_id} # {}

-----------------------------------------------------------------------------
(* SpecRunReport: grade runs on the two parts of problem 3 of one student, *)
(* the first one possibly interrupted, up to the report of a run           *)

\* source_codes/ of the run
PartFiles ==
    << NewSubmission("s1", "3_a", "s1_P3_a.c"),
       NewSubmission("s1", "3_b", "s1_P3_b.c") >>

InitRunReport ==
    /\ file = <<>>
    /\ lock = NoThread
    /\ submissions = PartFiles
    /\ toGrade = <<>>
    /\ phase = "scanned"
    /\ workers = 1
    /\ sub = <<>>
    /\ preFile = <<>>
    /\ lastOp = NoOp
    /\ th = <<>>
    /\ batch = <<>>
    /\ inp = <<>>
    /\ out = <<>>

\* graded_submissions of grade_all_submissions_with_progress: the results of
\* the calls that returned
GradedSubmissions ==
    LET returned == SelectSeq(sub, LAMBDA j : j.pc = "done")
    IN  [i \in DOMAIN returned |-> returned[i].s]

\* grade(): grades = aggregate_grades(graded_submissions, existing_csv_path=csv_path)
\* once every submission of the run is through, with no grades.csv yet
AggregateRun ==
    /\ phase = "grading"
    /\ \A i \in DOMAIN sub : sub[i].pc \in {"done", "raised"}
    /\ inp' = [progress_dict |-> ReadProgressLog(file), csv_grades |-> <<>>,
               submissions |-> GradedSubmissions]
    /\ \E order \in Orders(AllStudentIds(inp'.progress_dict, inp'.csv_grades,
                                         inp'.submissions)) :
           out' = AggregateGrades(inp'.progress_dict, inp'.csv_grades, inp'.submissions,
                                  order)
    /\ phase' = "aggregated"
    /\ UNCHANGED <<file, lock, submissions, toGrade, workers, sub, preFile, lastOp, th,
                   batch>>

NextRunReport ==
    \/ Filter
    \/ Interrupt
    \/ AggregateRun
    \/ \E i \in DOMAIN sub : StageSetup(i)
    \/ \E i \in DOMAIN sub : StageCompile(i)
    \/ \E i \in DOMAIN sub : StageRewrite(i)
    \/ \E i \in DOMAIN sub : StageTest(i)
    \/ \E i \in DOMAIN sub : StageLlm(i)

SpecRunReport == InitRunReport /\ [][NextRunReport]_vars

-----------------------------------------------------------------------------
(* Claims about the report of a run, under SpecRunReport                   *)

\* C38: at the end of a grade run, a resumed run that graded only some parts
\* of a problem included, each base-problem slot of a student's StudentGrade
\* is the sum of the scores other than -1 the store holds for the student's
\* parts of that problem.
C38_SlotIsStoreSum ==
    phase = "aggregated" =>
        \A i \in DOMAIN out, b \in Bases, extra \in BOOLEAN :
            OrZero(Slot(out[i], b, extra).score)
                = SumOfParts(StoreParts(out[i].student_id, b, extra))

-----------------------------------------------------------------------------
(* Claims about files added after a record was created, under SpecStoreOps *)

\* the store held a score other than -1 for the key of s before the call
HadGradedScore(s) ==
    /\ PDHas(StoredBefore, s.student_id)
    /\ IsProblemGraded(PDGet(StoredBefore, s.student_id), GetProblemKey(s))

\* C39: every discovered submission whose (student, problem key) has no graded
\* score in the store is in the list the filter returns, also when the
\* student's record does not hold the key because the file came later.
C39_UngradedAlwaysSelected ==
    lastOp.name = "filter" =>
        \A i \in DOMAIN submissions :
            ~HadGradedScore(submissions[i]) => InSeq(submissions[i], toGrade)

-----------------------------------------------------------------------------
(* SpecBuild: one run of the build command (main.py), in the default mode  *)
(* or with --student, and after it the selection of a grade run that finds *)
(* the same source files.                                                  *)

\* build(): submissions, _ = filter_submissions_by_progress(all_submissions)
BuildFilter ==
    /\ phase = "scanned"
    /\ LET r == FilterSubmissionsByProgress(submissions, file)
       IN  /\ file' = r.file
           /\ toGrade' = r.filtered
           /\ sub' = [i \in DOMAIN r.filtered |-> NewJob(r.filtered[i])]
           /\ phase' = IF r.filtered = <<>> THEN "exit" ELSE "building"
    /\ preFile' = file
    /\ lastOp' = [NoOp EXCEPT !.name = "filter"]
    /\ UNCHANGED <<batch, inp, out, lock, submissions, workers, th>>

\* build(): submissions = filter_by_student_ids(submissions, student_ids)
BuildFilterStudent ==
    /\ phase = "scanned"
    /\ \E student_ids \in StudentOptions :
           LET filtered == FilterByStudentIds(submissions, student_ids)
           IN  /\ toGrade' = filtered
               /\ sub' = [i \in DOMAIN filtered |-> NewJob(filtered[i])]
               /\ phase' = IF filtered = <<>> THEN "exit" ELSE "building"
    /\ preFile' = file
    /\ lastOp' = [NoOp EXCEPT !.name = "filter_by_student_ids"]
    /\ UNCHANGED <<batch, inp, out, file, lock, submissions, workers, th>>

\* compile_submission_only: sub = setup_workspace(submission)
BuildSetup(i) ==
    /\ phase = "building"
    /\ sub[i].pc = "queued"
    /\ CanStart(i)
    /\ \E copy_ok \in BOOLEAN :
           LET r == SetupWorkspace(sub[i], file, copy_ok)
           IN  /\ sub' = [sub EXCEPT ![i] = [r.job EXCEPT !.pc = "compile"]]
               /\ file' = r.file
    /\ preFile' = file
    /\ lastOp' = [NoOp EXCEPT !.name = "setup_workspace"]
    /\ UNCHANGED <<batch, inp, out, lock, submissions, toGrade, phase, workers, th>>

\* compile_submission_only: sub = compile_original(sub); return sub
BuildCompile(i) ==
    /\ phase = "building"
    /\ sub[i].pc = "compile"
    /\ \E compile_ok \in BOOLEAN :
           LET r == CompileOriginal(sub[i], file, compile_ok)
           IN  /\ sub' = [sub EXCEPT ![i] = [r.job EXCEPT !.pc = "done"]]
               /\ file' = r.file
    /\ preFile' = file
    /\ lastOp' = [NoOp EXCEPT !.name = "compile_original"]
    /\ UNCHANGED <<batch, inp, out, lock, submissions, toGrade, phase, workers, th>>

\* compile_all_submissions has returned; the grade command is started on the
\* same source files and calls filter_submissions_by_progress
GradeAfterBuild ==
    /\ phase = "building"
    /\ \A i \in DOMAIN sub : sub[i].pc = "done"
    /\ LET r == FilterSubmissionsByProgress(submissions, file)
       IN  /\ file' = r.file
           /\ toGrade' = r.filtered
    /\ phase' = "grade_selected"
    /\ preFile' = file
    /\ lastOp' = [NoOp EXCEPT !.name = "filter"]
    /\ UNCHANGED <<batch, inp, out, lock, submissions, workers, sub, th>>

NextBuild ==
    \/ Scan
    \/ BuildFilter
    \/ BuildFilterStudent
    \/ \E i \in DOMAIN sub : BuildSetup(i)
    \/ \E i \in DOMAIN sub : BuildCompile(i)
    \/ GradeAfterBuild

SpecBuild == InitStudent /\ [][NextBuild]_vars

\* the store f holds this score for the (student, problem key) of s
StoreHolds(f, s, score) ==
    LET d == ReadProgressLog(f)
    IN  /\ PDHas(d, s.student_id)
        /\ DictHas(PDGet(d, s.student_id).problems, GetProblemKey(s))
        /\ DictGet(PDGet(d, s.student_id).problems, GetProblemKey(s)).score = score

\* a step of compile_submission_only changes the store exactly when its stage
\* fails, and then the store holds score 0 for the submission
BuildWritesOnFailure ==
    (phase = "building" /\ phase' = "building") =>
        \A i \in DOMAIN sub :
            sub'[i] # sub[i] =>
                IF FailsNow(i) THEN StoreHolds(file', sub[i].s, 0)
                ELSE file' = file

\* after the build, a compiled submission is stored with -1 and selected by
\* the grade run, a failed one is not selected
GradeSelectsCompiled ==
    phase = "grade_selected" =>
        \A i \in DOMAIN sub :
            /\ sub[i].s.compile_status = "success" =>
                   /\ StoreHolds(file, sub[i].s, Ungraded)
                   /\ \E k \in DOMAIN toGrade : toGrade[k].file_name = sub[i].s.file_name
            /\ sub[i].s.compile_status = "failed" =>
                   ~\E k \in DOMAIN toGrade : toGrade[k].file_name = sub[i].s.file_name

\* C40: compile_submission_only runs only setup and compile; it writes to the
\* store exactly when one of them fails (score 0); a submission that compiled
\* keeps -1 and is selected by a later grade run, a failed one is not.
C40_BuildThenGrade ==
    /\ [][BuildWritesOnFailure]_vars
    /\ []GradeSelectsCompiled

====
